---- MODULE Spec2Model ----
(***************************************************************************)
(* bevy_midi: the background port workers (MidiInputTask, MidiOutputTask), *)
(* the two crossbeam channels between each worker and its facade           *)
(* (MidiInput / MidiOutput), and the per-tick drain system `reply`.        *)
(*                                                                         *)
(* Rust values are encoded as follows.                                     *)
(*   Option<T>   : <<>> is None, <<x>> is Some(x)                          *)
(*   enum values : tuples whose first element is the variant name          *)
(*   Vec<T>      : sequences                                               *)
(*   channels    : sequences, send = Append, recv = Head/Tail              *)
(***************************************************************************)
EXTENDS Integers, Sequences, FiniteSets, TLC

\* ---------------------------------------------------------------- bounds
\* Number of facade calls (connect/disconnect/refresh_ports/send) made by
\* the foreground in one behaviour.
MaxCmds == 3
\* Number of native ports the platform can enumerate.
MaxPorts == 2

\* ------------------------------------------------------ program constants
\* `for _ in 0..10` of get_available_ports (input side).
InRetries == 10
\* `for _ in 0..10` of get_available_ports (output side).
OutRetries == 10

\* --------------------------------------------------------------- helpers
None == <<>>
Some(x) == <<x>>
IsSome(o) == o # <<>>
IsNone(o) == o = <<>>
\* Option::unwrap on a Some value
Unwrap(o) == o[1]

\* Native port identifiers and the lists the platform may enumerate: every
\* port, or every port but the last one (unplugged between two enumerations).
Ports == 1..MaxPorts
PortName(p) == <<"port", p>>
PortLists == { [i \in 1..n |-> <<PortName(i), i>>] : n \in {MaxPorts - 1, MaxPorts} }

\* Outcomes of midir's connect: Ok, or ConnectError carrying a kind.
ConnectOutcomes == {"Ok", "InvalidPort", "Other"}
\* Number of leading enumeration attempts in which a port name could not be
\* read; attempt k succeeds iff k > fails.  Every number of failures:
EnumFailRuns == 0..(InRetries + 1)
\* The two sides of the boundary, for the enumerations a worker makes: only
\* the last attempt succeeds, or every attempt fails.
FailRuns == {InRetries - 1, InRetries}

\* Byte strings the native side may hand to the input callback: a 2-byte
\* program change, a 3-byte note on, a 4-byte system exclusive.
NativeBytes == { <<192, 5>>, <<144, 60, 127>>, <<240, 1, 2, 247>> }
\* The callback's timestamp of the n-th native message (microseconds).
Stamp(n) == 10 * n

\* 3-byte MIDI messages (super::MidiMessage, field `msg`).
Messages == { [msg |-> <<144, 60, 127>>], [msg |-> <<128, 60, 0>>] }

\* ------------------------------------------------------------- variables
VARIABLES
    plugin,        \* which plugin the App was built with: "input" / "output";
                   \* "wasm" (input on wasm32), "both", "midi" (lib.rs),
                   \* "none" (types.rs alone)
    app,           \* foreground: "running" / "panicked"
    inTask,        \* MidiInputTask: [pc, input, connection]
    inMessages,    \* control channel of the input side (Message)
    inReplies,     \* event channel of the input side (Reply)
    inPorts,       \* MidiInput.ports
    inConnected,   \* MidiInputConnection.connected
    inCalls,       \* number of facade calls made so far (input side)
    inLast,        \* record of the Message the worker handled last
    outTask,       \* MidiOutputTask: [pc, output, connection]
    outMessages,   \* control channel of the output side (Message)
    outReplies,    \* event channel of the output side (Reply)
    outPorts,      \* MidiOutput.ports
    outConnected,  \* MidiOutputConnection.connected
    outWrites,     \* native side: every MidiOutputConnection::send call, in order
    outCalls,      \* number of facade calls made so far (output side)
    outLast,       \* record of the Message the worker handled last
    budget,        \* number of facade calls and native messages of this behaviour
    dropped,       \* the facade (both of its channel endpoints) has been dropped
    inErrEvents,   \* MidiInputError messages written by the last run of `reply`
    inMidiEvents,  \* MidiData messages written by the last run of `reply`
    outErrEvents,  \* MidiOutputError events sent by the last run of `reply`
    inChanged,     \* the last run of `reply` marked the MidiInput resource changed
    outChanged,    \* the last run of `reply` marked the MidiOutput resource changed
    inNative,      \* native side: number of messages handed to the callback, last one
    inCallback,    \* the input callback thread: "ok" / "panicked"
    lib,           \* the `Midi` plugin of lib.rs: [is_debug, events, printed]
    conv,          \* types.rs: an event and what the From impls made of it
    enumEnv,       \* one call of get_available_ports: what each attempt finds
    enumK,         \* one call of get_available_ports: attempts made
    enumReturned   \* one call of get_available_ports: replies returned

inEvents == <<inErrEvents, inMidiEvents, inChanged>>
outEvents == <<outErrEvents, outChanged>>
inVars == <<inTask, inMessages, inReplies, inPorts, inConnected, inCalls, inLast, inEvents>>
outVars == <<outTask, outMessages, outReplies, outPorts, outConnected, outWrites,
             outCalls, outLast, outEvents>>
\* Variables no command handler, facade call or drain writes.
enumVars == <<enumEnv, enumK, enumReturned>>
envVars == <<budget, dropped, inNative, inCallback, lib, conv, enumVars>>
vars == <<plugin, app, inVars, outVars, envVars>>

\* ------------------------------------------------ input: enums of input.rs
\* No Message handled yet (initial value of inLast.cmd / outLast.cmd).
NoMessage == <<"NoMessage">>
RefreshPorts == <<"RefreshPorts">>
ConnectToPort(port) == <<"ConnectToPort", port>>
DisconnectFromPort == <<"DisconnectFromPort">>

AvailablePorts(ports) == <<"AvailablePorts", ports>>
Error(e) == <<"Error", e>>
Connected == <<"Connected">>
Disconnected == <<"Disconnected">>
ConnectionError(kind) == <<"ConnectionError", kind>>
PortRefreshError == <<"PortRefreshError">>

\* get_available_ports (input.rs): up to InRetries attempts, the first
\* attempt whose port names are all read yields AvailablePorts.
RECURSIVE InPortsLoop(_, _, _)
InPortsLoop(k, fails, ports) ==
    IF k > InRetries THEN Error(PortRefreshError)
    ELSE IF k > fails THEN AvailablePorts(ports)
    ELSE InPortsLoop(k + 1, fails, ports)

InGetAvailablePorts(fails, ports) == InPortsLoop(1, fails, ports)

\* midir::MidiInput, the unbound device handle opened by MidiInput::new.
InDevice == "MidiInput"
\* The closure handed to midir's connect by handle_connect_to_port: it
\* returns early unless the message has exactly 3 bytes.
ConnectCallback == [callback |-> "connect"]
\* The closure handed to midir's connect by handle_refresh_ports: it indexes
\* message[0..2] without a length test.
RefreshCallback == [callback |-> "refresh"]

\* A task whose poll panicked: the future is dropped, and with it both handles.
DeadTask == [pc |-> "panicked", input |-> None, connection |-> None]

\* A handler's result: the task after it and the replies it returns.
Result(self, replies) == [self |-> self, replies |-> replies]

\* Variant of handle_connect_to_port: a reconnect from Connected binds the
\* new connection to the port of the old one.
Mut_ConnectKeepsOldPort(self, port, outcome) ==
    LET was_connected == IsNone(self.input)
        bound == IF IsSome(self.connection) THEN Unwrap(self.connection)[2] ELSE port
    IN
    IF IsNone(self.input) /\ IsNone(self.connection)
    THEN Result([self EXCEPT !.pc = "panicked"], <<>>)
    ELSE IF outcome = "Ok"
    THEN Result([self EXCEPT !.connection = Some(<<ConnectCallback, bound>>),
                             !.input = None],
                <<Connected>>)
    ELSE Result([self EXCEPT !.connection = None,
                             !.input = Some(InDevice)],
                <<Error(ConnectionError(outcome))>>
                    \o (IF was_connected THEN <<Disconnected>> ELSE <<>>))

\* Variant of handle_connect_to_port: a failed connect made while Connected
\* sends the Error and no Disconnected.
Mut_ConnectFailureKeepsStatus(self, port, outcome) ==
    IF IsNone(self.input) /\ IsNone(self.connection)
    THEN Result([self EXCEPT !.pc = "panicked"], <<>>)
    ELSE IF outcome = "Ok"
    THEN Result([self EXCEPT !.connection = Some(<<ConnectCallback, port>>),
                             !.input = None],
                <<Connected>>)
    ELSE Result([self EXCEPT !.connection = None,
                             !.input = Some(InDevice)],
                <<Error(ConnectionError(outcome))>>)

\* Variant of handle_connect_to_port: after a failed connect made while
\* Connected the worker is back on the connection it had.
Mut_ConnectFailureRestoresOld(self, port, outcome) ==
    IF IsNone(self.input) /\ IsNone(self.connection)
    THEN Result([self EXCEPT !.pc = "panicked"], <<>>)
    ELSE IF outcome = "Ok"
    THEN Result([self EXCEPT !.connection = Some(<<ConnectCallback, port>>),
                             !.input = None],
                <<Connected>>)
    ELSE IF IsSome(self.connection)
    THEN Result(self, <<Error(ConnectionError(outcome))>>)
    ELSE Result([self EXCEPT !.connection = None,
                             !.input = Some(InDevice)],
                <<Error(ConnectionError(outcome))>>)

\* Variant of handle_connect_to_port: a connect that replaces a connection
\* announces the new connection and then the end of the old one.
Mut_ConnectSwitchAnnouncesOldEnd(self, port, outcome) ==
    LET was_connected == IsNone(self.input) IN
    IF IsNone(self.input) /\ IsNone(self.connection)
    THEN Result([self EXCEPT !.pc = "panicked"], <<>>)
    ELSE IF outcome = "Ok"
    THEN Result([self EXCEPT !.connection = Some(<<ConnectCallback, port>>),
                             !.input = None],
                <<Connected>> \o (IF was_connected THEN <<Disconnected>> ELSE <<>>))
    ELSE Result([self EXCEPT !.connection = None,
                             !.input = Some(InDevice)],
                <<Error(ConnectionError(outcome))>>
                    \o (IF was_connected THEN <<Disconnected>> ELSE <<>>))

\* MidiInputTask::handle_connect_to_port
handle_connect_to_port(self, port, outcome) ==
    LET was_connected == IsNone(self.input) IN
    IF IsNone(self.input) /\ IsNone(self.connection)
    THEN \* self.connection.take().unwrap() on None
         Result([self EXCEPT !.pc = "panicked"], <<>>)
    ELSE IF outcome = "Ok"
    THEN Result([self EXCEPT !.connection = Some(<<ConnectCallback, port>>),
                             !.input = None],
                <<Connected>>)
    ELSE Result([self EXCEPT !.connection = None,
                             !.input = Some(InDevice)],
                <<Error(ConnectionError(outcome))>>
                    \o (IF was_connected THEN <<Disconnected>> ELSE <<>>))

\* Variant of handle_disconnect_from_port: the device handle returned by
\* close() is not stored back.
Mut_DisconnectLosesDevice(self) ==
    IF IsSome(self.connection)
    THEN Result([self EXCEPT !.connection = None], <<Disconnected>>)
    ELSE Result(self, <<>>)

\* Variant of handle_disconnect_from_port: Disconnected is returned also when
\* there was no connection.
Mut_DisconnectAlwaysReplies(self) ==
    IF IsSome(self.connection)
    THEN Result([self EXCEPT !.input = Some(InDevice), !.connection = None],
                <<Disconnected>>)
    ELSE Result(self, <<Disconnected>>)

\* MidiInputTask::handle_disconnect_from_port
handle_disconnect_from_port(self) ==
    IF IsSome(self.connection)
    THEN Result([self EXCEPT !.input = Some(InDevice), !.connection = None],
                <<Disconnected>>)
    ELSE Result(self, <<>>)

\* Variant of handle_refresh_ports: a successful reconnect is announced with
\* Connected.
Mut_RefreshAnnouncesReconnect(self, fails, ports, outcome) ==
    IF IsSome(self.input)
    THEN Result(self, <<InGetAvailablePorts(fails, ports)>>)
    ELSE IF IsSome(self.connection)
    THEN LET port == Unwrap(self.connection)[2]
             replies == <<InGetAvailablePorts(fails, ports)>>
         IN  IF outcome = "Ok"
             THEN Result([self EXCEPT !.connection = Some(<<RefreshCallback, port>>),
                                      !.input = None],
                         replies \o <<Connected>>)
             ELSE Result([self EXCEPT !.connection = None,
                                      !.input = Some(InDevice)],
                         replies \o <<Error(ConnectionError(outcome)), Disconnected>>)
    ELSE Result(self, <<>>)

\* A refresh that, while Idle, also announces a disconnect.
Mut_RefreshIdleAnnouncesDisconnect(self, fails, ports, outcome) ==
    IF IsSome(self.input)
    THEN Result(self, <<InGetAvailablePorts(fails, ports), Disconnected>>)
    ELSE IF IsSome(self.connection)
    THEN LET port == Unwrap(self.connection)[2]
             replies == <<InGetAvailablePorts(fails, ports)>>
         IN  IF outcome = "Ok"
             THEN Result([self EXCEPT !.connection = Some(<<RefreshCallback, port>>),
                                      !.input = None],
                         replies)
             ELSE Result([self EXCEPT !.connection = None,
                                      !.input = Some(InDevice)],
                         replies \o <<Error(ConnectionError(outcome)), Disconnected>>)
    ELSE Result(self, <<>>)

\* A refresh that reconnects to the first port of the new enumeration.
Mut_RefreshReconnectsFirstListed(self, fails, ports, outcome) ==
    IF IsSome(self.input)
    THEN Result(self, <<InGetAvailablePorts(fails, ports)>>)
    ELSE IF IsSome(self.connection)
    THEN LET port == ports[1][2]
             replies == <<InGetAvailablePorts(fails, ports)>>
         IN  IF outcome = "Ok"
             THEN Result([self EXCEPT !.connection = Some(<<RefreshCallback, port>>),
                                      !.input = None],
                         replies)
             ELSE Result([self EXCEPT !.connection = None,
                                      !.input = Some(InDevice)],
                         replies \o <<Error(ConnectionError(outcome)), Disconnected>>)
    ELSE Result(self, <<>>)

\* MidiInputTask::handle_refresh_ports
handle_refresh_ports(self, fails, ports, outcome) ==
    IF IsSome(self.input)
    THEN Result(self, <<InGetAvailablePorts(fails, ports)>>)
    ELSE IF IsSome(self.connection)
    THEN LET port == Unwrap(self.connection)[2]
             replies == <<InGetAvailablePorts(fails, ports)>>
         IN  IF outcome = "Ok"
             THEN Result([self EXCEPT !.connection = Some(<<RefreshCallback, port>>),
                                      !.input = None],
                         replies)
             ELSE Result([self EXCEPT !.connection = None,
                                      !.input = Some(InDevice)],
                         replies \o <<Error(ConnectionError(outcome)), Disconnected>>)
    ELSE Result(self, <<>>)

\* ------------------------------------------------------------ input: Init
\* State after `setup`: both channels empty, the task spawned with no handle.
InInit ==
    /\ inTask = [pc |-> "start", input |-> None, connection |-> None]
    /\ inMessages = <<>>
    /\ inReplies = <<>>
    /\ inPorts = <<>>
    /\ inConnected = FALSE
    /\ inCalls = 0
    /\ inErrEvents = <<>>
    /\ inMidiEvents = <<>>
    /\ inChanged = FALSE
    /\ inLast = [cmd |-> NoMessage, before |-> inTask, after |-> inTask,
                 replies |-> <<>>, connect |-> "NotCalled"]

\* setup (input.rs) spawns the same MidiInputTask on either target: polled as
\* a future on the native ones ("input"), driven by run_wasm on wasm32
\* ("wasm").  The facade and the drain system are the same code on both.
InputBuild == plugin \in {"input", "wasm"}

\* ---------------------------------------------------------- input: facade
\* Sender::send(..).expect(..) of the facade: the command is enqueued, or
\* the foreground panics when the worker (the receiving end) is gone.
InFacadeSend(msg) ==
    /\ InputBuild
    /\ app = "running"
    /\ ~dropped
    /\ inCalls + inNative.n < budget
    /\ IF inTask.pc = "panicked"
       THEN /\ app' = "panicked"
            /\ UNCHANGED <<envVars, plugin, inVars, outVars>>
       ELSE /\ inMessages' = Append(inMessages, msg)
            /\ inCalls' = inCalls + 1
            /\ UNCHANGED <<envVars, plugin, app, inTask, inReplies, inPorts, inConnected, inLast, inEvents, outVars>>

\* MidiInput::refresh_ports
InRefreshPortsCall == InFacadeSend(RefreshPorts)
\* MidiInput::connect
InConnectCall == \E port \in Ports : InFacadeSend(ConnectToPort(port))
\* MidiInput::disconnect
InDisconnectCall == InFacadeSend(DisconnectFromPort)

\* A first poll that sends the startup enumeration twice.
Mut_InStartEnumeratesTwice ==
    /\ plugin = "input"
    /\ inTask.pc = "start"
    /\ \E opened \in BOOLEAN, fails \in FailRuns, ports \in PortLists :
         IF opened /\ ~dropped
         THEN /\ inTask' = [inTask EXCEPT !.pc = "waiting", !.input = Some(InDevice)]
              /\ inReplies' = inReplies \o <<InGetAvailablePorts(fails, ports),
                                             InGetAvailablePorts(fails, ports)>>
         ELSE /\ inTask' = [inTask EXCEPT !.pc = "panicked"]
              /\ inReplies' = inReplies
    /\ UNCHANGED <<envVars, plugin, app, inMessages, inPorts, inConnected, inCalls, inLast, inEvents, outVars>>

\* ---------------------------------------------------------- input: worker
\* First poll: open the device and send the first enumeration.  When the
\* device cannot be opened, `self.input.as_ref().unwrap()` panics.
InStart ==
    /\ plugin = "input"
    /\ inTask.pc = "start"
    /\ \E opened \in BOOLEAN, fails \in FailRuns, ports \in PortLists :
         IF opened /\ ~dropped
         THEN /\ inTask' = [inTask EXCEPT !.pc = "waiting", !.input = Some(InDevice)]
              /\ inReplies' = Append(inReplies, InGetAvailablePorts(fails, ports))
         ELSE /\ inTask' = [inTask EXCEPT !.pc = "panicked"]
              /\ inReplies' = inReplies
    /\ UNCHANGED <<envVars, plugin, app, inMessages, inPorts, inConnected, inCalls, inLast, inEvents, outVars>>

\* The worker takes the head of the control channel, runs the handler and
\* sends the handler's replies, in order, on the event channel.
\* `self.sender.send(reply).unwrap()` panics once the facade, which owns the
\* receiving end, is gone; the panicking task is dropped with its handles.
\* A worker that puts the replies of a command in front of the queued ones.
Mut_InHandleRepliesFirst(msg, r, outcome) ==
    /\ inMessages' = Tail(inMessages)
    /\ inTask' = r.self
    /\ inReplies' = r.replies \o inReplies
    /\ inLast' = [cmd |-> msg, before |-> inTask, after |-> r.self,
                  replies |-> r.replies, connect |-> outcome]
    /\ UNCHANGED <<envVars, plugin, app, inPorts, inConnected, inCalls, inEvents, outVars>>

InHandle(msg, r, outcome) ==
    /\ inMessages' = Tail(inMessages)
    /\ IF dropped /\ r.replies # <<>>
       THEN /\ inTask' = DeadTask
            /\ inReplies' = inReplies
            /\ inLast' = [cmd |-> msg, before |-> inTask, after |-> DeadTask,
                          replies |-> <<>>, connect |-> outcome]
       ELSE /\ inTask' = r.self
            /\ inReplies' = inReplies \o r.replies
            /\ inLast' = [cmd |-> msg, before |-> inTask, after |-> r.self,
                          replies |-> r.replies, connect |-> outcome]
    /\ UNCHANGED <<envVars, plugin, app, inPorts, inConnected, inCalls, inEvents, outVars>>

\* A worker that stops receiving once a command of its has ended in an Error.
Mut_InTakeStopsAfterError(tag) ==
    /\ plugin = "input"
    /\ app # "aborted"
    /\ inTask.pc = "waiting"
    /\ inMessages # <<>>
    /\ Head(inMessages)[1] = tag
    /\ \A i \in DOMAIN inLast.replies : inLast.replies[i][1] # "Error"

InTake(tag) ==
    /\ plugin = "input"
    /\ app # "aborted"
    /\ inTask.pc = "waiting"
    /\ inMessages # <<>>
    /\ Head(inMessages)[1] = tag

\* poll, arm ConnectToPort(port)
InConnectToPort ==
    /\ InTake("ConnectToPort")
    /\ \E outcome \in ConnectOutcomes :
         InHandle(Head(inMessages),
                  handle_connect_to_port(inTask, Head(inMessages)[2], outcome),
                  outcome)

\* poll, arm DisconnectFromPort
InDisconnectFromPort ==
    /\ InTake("DisconnectFromPort")
    /\ InHandle(Head(inMessages), handle_disconnect_from_port(inTask), "NotCalled")

\* poll, arm RefreshPorts
InRefreshPorts ==
    /\ InTake("RefreshPorts")
    /\ \E fails \in FailRuns, ports \in PortLists,
          outcome \in (IF IsSome(inTask.connection) THEN ConnectOutcomes ELSE {"NotCalled"}) :
         InHandle(Head(inMessages),
                  handle_refresh_ports(inTask, fails, ports, outcome),
                  outcome)

\* ----------------------------------------------------------- input: drain
\* The `reply` system folds every queued Reply into the foreground state.
\* A drain in which an Error reply empties the snapshot.
RECURSIVE Mut_DrainPortsErrorClears(_, _)
Mut_DrainPortsErrorClears(replies, ports) ==
    IF replies = <<>> THEN ports
    ELSE Mut_DrainPortsErrorClears(Tail(replies),
             CASE Head(replies)[1] = "AvailablePorts" -> Head(replies)[2]
               [] Head(replies)[1] = "Error" -> <<>>
               [] OTHER -> ports)

\* A drain that adds the entries of a new list to the snapshot.
RECURSIVE Mut_DrainPortsMerges(_, _)
Mut_DrainPortsMerges(replies, ports) ==
    IF replies = <<>> THEN ports
    ELSE Mut_DrainPortsMerges(Tail(replies),
             IF Head(replies)[1] = "AvailablePorts"
             THEN IF Len(Head(replies)[2]) >= Len(ports) THEN Head(replies)[2] ELSE ports
             ELSE ports)

\* A drain in which an Error reply resets the connection status.
RECURSIVE Mut_DrainConnectedErrorResets(_, _)
Mut_DrainConnectedErrorResets(replies, connected) ==
    IF replies = <<>> THEN connected
    ELSE Mut_DrainConnectedErrorResets(Tail(replies),
             CASE Head(replies)[1] = "Connected" -> TRUE
               [] Head(replies)[1] = "Disconnected" -> FALSE
               [] Head(replies)[1] = "Error" -> FALSE
               [] OTHER -> connected)

RECURSIVE DrainPorts(_, _)
DrainPorts(replies, ports) ==
    IF replies = <<>> THEN ports
    ELSE DrainPorts(Tail(replies),
                    IF Head(replies)[1] = "AvailablePorts" THEN Head(replies)[2] ELSE ports)

RECURSIVE DrainConnected(_, _)
DrainConnected(replies, connected) ==
    IF replies = <<>> THEN connected
    ELSE DrainConnected(Tail(replies),
                        CASE Head(replies)[1] = "Connected" -> TRUE
                          [] Head(replies)[1] = "Disconnected" -> FALSE
                          [] OTHER -> connected)

\* reply (input.rs): the MidiInputError of every Reply::Error, in order
RECURSIVE DrainErrors(_)
DrainErrors(replies) ==
    IF replies = <<>> THEN <<>>
    ELSE (IF Head(replies)[1] = "Error" THEN <<Head(replies)[2]>> ELSE <<>>)
             \o DrainErrors(Tail(replies))

\* A drain that forwards the newest message first.
RECURSIVE Mut_DrainMidiNewestFirst(_)
Mut_DrainMidiNewestFirst(replies) ==
    IF replies = <<>> THEN <<>>
    ELSE Mut_DrainMidiNewestFirst(Tail(replies))
             \o (IF Head(replies)[1] = "Midi" THEN <<Head(replies)[2]>> ELSE <<>>)

\* reply (input.rs): the MidiData of every Reply::Midi, in order
RECURSIVE DrainMidi(_)
DrainMidi(replies) ==
    IF replies = <<>> THEN <<>>
    ELSE (IF Head(replies)[1] = "Midi" THEN <<Head(replies)[2]>> ELSE <<>>)
             \o DrainMidi(Tail(replies))

\* A drain in which every reply marks the resource changed.
Mut_DrainChangedByAnyReply(replies) == replies # <<>>

\* reply (input.rs): `input.ports = ports` goes through DerefMut of
\* ResMut<MidiInput>, which marks the resource changed; `input.receiver` is
\* only read.
DrainChanged(replies) ==
    \E i \in DOMAIN replies : replies[i][1] = "AvailablePorts"

\* A drain that handles one reply per run and leaves the others queued.
Mut_InReplyOnePerRun ==
    /\ plugin = "input"
    /\ app = "running"
    /\ ~dropped
    /\ inReplies # <<>>
    /\ inErrEvents' = DrainErrors(<<Head(inReplies)>>)
    /\ inMidiEvents' = DrainMidi(<<Head(inReplies)>>)
    /\ inChanged' = DrainChanged(<<Head(inReplies)>>)
    /\ inPorts' = DrainPorts(<<Head(inReplies)>>, inPorts)
    /\ inConnected' = DrainConnected(<<Head(inReplies)>>, inConnected)
    /\ inReplies' = Tail(inReplies)
    /\ UNCHANGED <<envVars, plugin, app, inTask, inMessages, inCalls, inLast, outVars>>

\* reply (input.rs), one run of the PreUpdate system that finds replies queued
InReply ==
    /\ InputBuild
    /\ app = "running"
    /\ ~dropped
    /\ inReplies # <<>>
    /\ inErrEvents' = DrainErrors(inReplies)
    /\ inMidiEvents' = DrainMidi(inReplies)
    /\ inChanged' = DrainChanged(inReplies)
    /\ inPorts' = DrainPorts(inReplies, inPorts)
    /\ inConnected' = DrainConnected(inReplies, inConnected)
    /\ inReplies' = <<>>
    /\ UNCHANGED <<envVars, plugin, app, inTask, inMessages, inCalls, inLast, outVars>>

\* ------------------------------------------------- input: native callback
\* Reply::Midi and MidiData of input.rs
MidiReply(m) == <<"Midi", m>>
MidiData(stamp, bytes) == [stamp |-> stamp, message |-> [msg |-> bytes]]

\* One run of a callback closure: whether it panicked and what it sent.
Ran(replies) == [panicked |-> FALSE, replies |-> replies]
Panicked == [panicked |-> TRUE, replies |-> <<>>]

\* The closure of handle_connect_to_port
ConnectClosure(stamp, message) ==
    IF Len(message) # 3
    THEN Ran(<<>>)
    ELSE Ran(<<MidiReply(MidiData(stamp, <<message[1], message[2], message[3]>>))>>)

\* The closure of handle_refresh_ports: message[0], message[1], message[2]
\* are indexed without a test, which panics on a shorter slice.
RefreshClosure(stamp, message) ==
    IF Len(message) < 3
    THEN Panicked
    ELSE Ran(<<MidiReply(MidiData(stamp, <<message[1], message[2], message[3]>>))>>)

\* The closure registered with the current connection.
Closure(conn, stamp, message) ==
    IF conn = ConnectCallback
    THEN ConnectClosure(stamp, message)
    ELSE RefreshClosure(stamp, message)

\* The native MIDI thread calls the closure of the open connection with one
\* message.  `let _ = s.send(..)` ignores a send on a channel without
\* receiver.  A panic of the closure ends the native thread it runs on, or,
\* where the closure is called through a foreign function, the process.
InCallback ==
    /\ plugin = "input"
    /\ app = "running"
    /\ inCallback = "ok"
    /\ IsSome(inTask.connection)
    /\ inCalls + inNative.n < budget
    /\ \E message \in NativeBytes :
         LET stamp == Stamp(inNative.n + 1)
             conn == Unwrap(inTask.connection)
             ran == Closure(conn[1], stamp, message)
         IN  /\ inNative' = [n |-> inNative.n + 1,
                             last |-> Some([stamp |-> stamp, bytes |-> message,
                                            closure |-> conn[1]])]
             /\ IF ran.panicked
                THEN /\ inCallback' = "panicked"
                     /\ app' \in {"running", "aborted"}
                     /\ inReplies' = inReplies
                ELSE /\ inCallback' = "ok"
                     /\ app' = app
                     /\ inReplies' = IF dropped THEN inReplies
                                     ELSE inReplies \o ran.replies
    /\ UNCHANGED <<plugin, budget, dropped, lib, conv, enumVars, inTask, inMessages, inPorts,
                   inConnected, inCalls, inLast, inEvents, outVars>>

InNext ==
    \/ InRefreshPortsCall
    \/ InConnectCall
    \/ InDisconnectCall
    \/ InStart
    \/ InConnectToPort
    \/ InDisconnectFromPort
    \/ InRefreshPorts
    \/ InReply

\* =========================================================== output side
\* Message::Midi of output.rs
Midi(message) == <<"Midi", message>>
SendError == <<"SendError">>
SendDisconnectedError(message) == <<"SendDisconnectedError", message>>

\* get_available_ports (output.rs)
RECURSIVE OutPortsLoop(_, _, _)
OutPortsLoop(k, fails, ports) ==
    IF k > OutRetries THEN Error(PortRefreshError)
    ELSE IF k > fails THEN AvailablePorts(ports)
    ELSE OutPortsLoop(k + 1, fails, ports)

OutGetAvailablePorts(fails, ports) == OutPortsLoop(1, fails, ports)

\* midir::MidiOutput, the unbound device handle opened by MidiOutput::new.
OutDevice == "MidiOutput"
\* midir::MidiOutputConnection, the handle bound to a port.
OutConn == "MidiOutputConnection"

\* A task whose poll panicked: the future is dropped, and with it both handles.
OutDeadTask == [pc |-> "panicked", output |-> None, connection |-> None]

\* An arm's result: the task after it, the replies it sent and the native
\* send calls it made.
OutResult(self, replies, writes) ==
    [self |-> self, replies |-> replies, writes |-> writes]

\* Variant of the ConnectToPort arm: a failed connect sends Disconnected
\* whether or not the worker was connected.
Mut_OutConnectFailureAlwaysDisconnected(self, port, outcome) ==
    IF IsNone(self.output) /\ IsNone(self.connection)
    THEN OutResult([self EXCEPT !.pc = "panicked"], <<>>, <<>>)
    ELSE IF outcome = "Ok"
    THEN OutResult([self EXCEPT !.connection = Some(<<OutConn, port>>),
                                !.output = None],
                   <<Connected>>, <<>>)
    ELSE OutResult([self EXCEPT !.connection = None,
                                !.output = Some(OutDevice)],
                   <<Error(ConnectionError(outcome)), Disconnected>>,
                   <<>>)

\* poll (output.rs), arm ConnectToPort(port)
OutArmConnectToPort(self, port, outcome) ==
    LET was_connected == IsNone(self.output) IN
    IF IsNone(self.output) /\ IsNone(self.connection)
    THEN \* self.connection.take().unwrap() on None
         OutResult([self EXCEPT !.pc = "panicked"], <<>>, <<>>)
    ELSE IF outcome = "Ok"
    THEN OutResult([self EXCEPT !.connection = Some(<<OutConn, port>>),
                                !.output = None],
                   <<Connected>>, <<>>)
    ELSE OutResult([self EXCEPT !.connection = None,
                                !.output = Some(OutDevice)],
                   <<Error(ConnectionError(outcome))>>
                       \o (IF was_connected THEN <<Disconnected>> ELSE <<>>),
                   <<>>)

\* Variant of the DisconnectFromPort arm: the connection is closed without
\* sending Disconnected.
Mut_OutDisconnectSilent(self) ==
    IF IsSome(self.connection)
    THEN OutResult([self EXCEPT !.output = Some(OutDevice), !.connection = None],
                   <<>>, <<>>)
    ELSE OutResult(self, <<>>, <<>>)

\* poll (output.rs), arm DisconnectFromPort
OutArmDisconnectFromPort(self) ==
    IF IsSome(self.connection)
    THEN OutResult([self EXCEPT !.output = Some(OutDevice), !.connection = None],
                   <<Disconnected>>, <<>>)
    ELSE OutResult(self, <<>>, <<>>)

\* Variant of the RefreshPorts arm: a failed reconnect sends Disconnected
\* before the Error.
Mut_OutRefreshFailureOrder(self, fails, ports, outcome) ==
    IF IsSome(self.output)
    THEN OutResult(self, <<OutGetAvailablePorts(fails, ports)>>, <<>>)
    ELSE IF IsNone(self.connection)
    THEN OutResult([self EXCEPT !.pc = "panicked"], <<>>, <<>>)
    ELSE LET port == Unwrap(self.connection)[2]
             replies == <<OutGetAvailablePorts(fails, ports)>>
         IN  IF outcome = "Ok"
             THEN OutResult([self EXCEPT !.connection = Some(<<OutConn, port>>),
                                         !.output = None],
                            replies, <<>>)
             ELSE OutResult([self EXCEPT !.connection = None,
                                         !.output = Some(OutDevice)],
                            replies \o <<Disconnected, Error(ConnectionError(outcome))>>,
                            <<>>)

\* Variant of the RefreshPorts arm: a reconnect that succeeded is announced
\* with Connected.
Mut_OutRefreshAnnouncesReconnect(self, fails, ports, outcome) ==
    IF IsSome(self.output)
    THEN OutResult(self, <<OutGetAvailablePorts(fails, ports)>>, <<>>)
    ELSE IF IsNone(self.connection)
    THEN OutResult([self EXCEPT !.pc = "panicked"], <<>>, <<>>)
    ELSE LET port == Unwrap(self.connection)[2]
             replies == <<OutGetAvailablePorts(fails, ports)>>
         IN  IF outcome = "Ok"
             THEN OutResult([self EXCEPT !.connection = Some(<<OutConn, port>>),
                                         !.output = None],
                            replies \o <<Connected>>, <<>>)
             ELSE OutResult([self EXCEPT !.connection = None,
                                         !.output = Some(OutDevice)],
                            replies \o <<Error(ConnectionError(outcome)), Disconnected>>,
                            <<>>)

\* poll (output.rs), arm RefreshPorts
OutArmRefreshPorts(self, fails, ports, outcome) ==
    IF IsSome(self.output)
    THEN OutResult(self, <<OutGetAvailablePorts(fails, ports)>>, <<>>)
    ELSE IF IsNone(self.connection)
    THEN \* self.connection.take().unwrap() on None
         OutResult([self EXCEPT !.pc = "panicked"], <<>>, <<>>)
    ELSE LET port == Unwrap(self.connection)[2]
             replies == <<OutGetAvailablePorts(fails, ports)>>
         IN  IF outcome = "Ok"
             THEN OutResult([self EXCEPT !.connection = Some(<<OutConn, port>>),
                                         !.output = None],
                            replies, <<>>)
             ELSE OutResult([self EXCEPT !.connection = None,
                                         !.output = Some(OutDevice)],
                            replies \o <<Error(ConnectionError(outcome)), Disconnected>>,
                            <<>>)

\* One call of MidiOutputConnection::send(&message.msg) on the connection
\* bound to `port`; `sent` is whether the native call returned Ok.
NativeSend(port, bytes, sent) == [port |-> port, bytes |-> bytes, ok |-> sent]

\* Variant of the Midi arm: a message sent while Idle is dropped without an
\* Error reply.
Mut_MidiIdleSilent(self, message, sent) ==
    IF IsSome(self.connection)
    THEN OutResult(self,
                   IF sent THEN <<>> ELSE <<Error(SendError)>>,
                   <<NativeSend(Unwrap(self.connection)[2], message.msg, sent)>>)
    ELSE OutResult(self, <<>>, <<>>)

\* Variant of the Midi arm: a failed write closes the connection.
Mut_MidiFailureDisconnects(self, message, sent) ==
    IF IsSome(self.connection)
    THEN IF sent
         THEN OutResult(self, <<>>,
                        <<NativeSend(Unwrap(self.connection)[2], message.msg, TRUE)>>)
         ELSE OutResult([self EXCEPT !.output = Some(OutDevice), !.connection = None],
                        <<Error(SendError), Disconnected>>,
                        <<NativeSend(Unwrap(self.connection)[2], message.msg, FALSE)>>)
    ELSE OutResult(self, <<Error(SendDisconnectedError(message))>>, <<>>)

\* Variant of the Midi arm: a failed write is retried once.
Mut_MidiRetriesWrite(self, message, sent) ==
    IF IsSome(self.connection)
    THEN OutResult(self,
                   IF sent THEN <<>> ELSE <<Error(SendError)>>,
                   IF sent
                   THEN <<NativeSend(Unwrap(self.connection)[2], message.msg, TRUE)>>
                   ELSE <<NativeSend(Unwrap(self.connection)[2], message.msg, FALSE),
                          NativeSend(Unwrap(self.connection)[2], message.msg, FALSE)>>)
    ELSE OutResult(self, <<Error(SendDisconnectedError(message))>>, <<>>)

\* poll (output.rs), arm Midi(message)
OutArmMidi(self, message, sent) ==
    IF IsSome(self.connection)
    THEN OutResult(self,
                   IF sent THEN <<>> ELSE <<Error(SendError)>>,
                   <<NativeSend(Unwrap(self.connection)[2], message.msg, sent)>>)
    ELSE OutResult(self, <<Error(SendDisconnectedError(message))>>, <<>>)

\* State after `setup` (output.rs)
OutInit ==
    /\ outTask = [pc |-> "start", output |-> None, connection |-> None]
    /\ outMessages = <<>>
    /\ outReplies = <<>>
    /\ outPorts = <<>>
    /\ outConnected = FALSE
    /\ outWrites = <<>>
    /\ outCalls = 0
    /\ outErrEvents = <<>>
    /\ outChanged = FALSE
    /\ outLast = [cmd |-> NoMessage, before |-> outTask, after |-> outTask,
                  replies |-> <<>>, connect |-> "NotCalled", writes |-> <<>>]

\* Sender::send(..).expect(..) of the MidiOutput facade
OutFacadeSend(msg) ==
    /\ plugin = "output"
    /\ app = "running"
    /\ ~dropped
    /\ outCalls < budget
    /\ IF outTask.pc = "panicked"
       THEN /\ app' = "panicked"
            /\ UNCHANGED <<envVars, plugin, inVars, outVars>>
       ELSE /\ outMessages' = Append(outMessages, msg)
            /\ outCalls' = outCalls + 1
            /\ UNCHANGED <<envVars, plugin, app, inVars, outTask, outReplies, outPorts,
                           outConnected, outWrites, outLast, outEvents>>

\* MidiOutput::refresh_ports
OutRefreshPortsCall == OutFacadeSend(RefreshPorts)
\* MidiOutput::connect
OutConnectCall == \E port \in Ports : OutFacadeSend(ConnectToPort(port))
\* MidiOutput::disconnect
OutDisconnectCall == OutFacadeSend(DisconnectFromPort)
\* MidiOutput::send
OutSendCall == \E message \in Messages : OutFacadeSend(Midi(message))

\* First poll of MidiOutputTask: open the device, send the first enumeration;
\* `self.output.as_ref().unwrap()` panics when the device cannot be opened.
OutStart ==
    /\ plugin = "output"
    /\ outTask.pc = "start"
    /\ \E opened \in BOOLEAN, fails \in FailRuns, ports \in PortLists :
         IF opened /\ ~dropped
         THEN /\ outTask' = [outTask EXCEPT !.pc = "waiting", !.output = Some(OutDevice)]
              /\ outReplies' = Append(outReplies, OutGetAvailablePorts(fails, ports))
         ELSE /\ outTask' = [outTask EXCEPT !.pc = "panicked"]
              /\ outReplies' = outReplies
    /\ UNCHANGED <<envVars, plugin, app, inVars, outMessages, outPorts, outConnected, outWrites,
                   outCalls, outLast, outEvents>>

\* The worker takes the head of the control channel and runs its match arm.
\* `self.sender.send(..).unwrap()` panics once the facade is gone.
OutHandle(msg, r, outcome) ==
    /\ outMessages' = Tail(outMessages)
    /\ IF dropped /\ r.replies # <<>>
       THEN /\ outTask' = OutDeadTask
            /\ outReplies' = outReplies
            /\ outLast' = [cmd |-> msg, before |-> outTask, after |-> OutDeadTask,
                           replies |-> <<>>, connect |-> outcome, writes |-> r.writes]
       ELSE /\ outTask' = r.self
            /\ outReplies' = outReplies \o r.replies
            /\ outLast' = [cmd |-> msg, before |-> outTask, after |-> r.self,
                           replies |-> r.replies, connect |-> outcome, writes |-> r.writes]
    /\ outWrites' = outWrites \o r.writes
    /\ UNCHANGED <<envVars, plugin, app, inVars, outPorts, outConnected, outCalls, outEvents>>

OutTake(tag) ==
    /\ plugin = "output"
    /\ outTask.pc = "waiting"
    /\ outMessages # <<>>
    /\ Head(outMessages)[1] = tag

OutConnectToPort ==
    /\ OutTake("ConnectToPort")
    /\ \E outcome \in ConnectOutcomes :
         OutHandle(Head(outMessages),
                   OutArmConnectToPort(outTask, Head(outMessages)[2], outcome),
                   outcome)

OutDisconnectFromPort ==
    /\ OutTake("DisconnectFromPort")
    /\ OutHandle(Head(outMessages), OutArmDisconnectFromPort(outTask), "NotCalled")

OutRefreshPorts ==
    /\ OutTake("RefreshPorts")
    /\ \E fails \in FailRuns, ports \in PortLists,
          outcome \in (IF IsSome(outTask.connection) THEN ConnectOutcomes ELSE {"NotCalled"}) :
         OutHandle(Head(outMessages),
                   OutArmRefreshPorts(outTask, fails, ports, outcome),
                   outcome)

OutMidi ==
    /\ OutTake("Midi")
    /\ \E sent \in (IF IsSome(outTask.connection) THEN BOOLEAN ELSE {FALSE}) :
         OutHandle(Head(outMessages),
                   OutArmMidi(outTask, Head(outMessages)[2], sent),
                   "NotCalled")

\* The `reply` system of output.rs folds every queued Reply.
RECURSIVE OutDrainPorts(_, _)
OutDrainPorts(replies, ports) ==
    IF replies = <<>> THEN ports
    ELSE OutDrainPorts(Tail(replies),
                       IF Head(replies)[1] = "AvailablePorts" THEN Head(replies)[2] ELSE ports)

RECURSIVE OutDrainConnected(_, _)
OutDrainConnected(replies, connected) ==
    IF replies = <<>> THEN connected
    ELSE OutDrainConnected(Tail(replies),
                           CASE Head(replies)[1] = "Connected" -> TRUE
                             [] Head(replies)[1] = "Disconnected" -> FALSE
                             [] OTHER -> connected)

\* reply (output.rs): the MidiOutputError of every Reply::Error, in order
RECURSIVE OutDrainErrors(_)
OutDrainErrors(replies) ==
    IF replies = <<>> THEN <<>>
    ELSE (IF Head(replies)[1] = "Error" THEN <<Head(replies)[2]>> ELSE <<>>)
             \o OutDrainErrors(Tail(replies))

\* reply (output.rs): `output.ports = ports` marks ResMut<MidiOutput> changed.
OutDrainChanged(replies) ==
    \E i \in DOMAIN replies : replies[i][1] = "AvailablePorts"

\* reply (output.rs), one run of the PreUpdate system that finds replies queued
OutReply ==
    /\ plugin = "output"
    /\ app = "running"
    /\ ~dropped
    /\ outReplies # <<>>
    /\ outErrEvents' = OutDrainErrors(outReplies)
    /\ outChanged' = OutDrainChanged(outReplies)
    /\ outPorts' = OutDrainPorts(outReplies, outPorts)
    /\ outConnected' = OutDrainConnected(outReplies, outConnected)
    /\ outReplies' = <<>>
    /\ UNCHANGED <<envVars, plugin, app, inVars, outTask, outMessages, outWrites, outCalls, outLast>>

OutNext ==
    \/ OutRefreshPortsCall
    \/ OutConnectCall
    \/ OutDisconnectCall
    \/ OutSendCall
    \/ OutStart
    \/ OutConnectToPort
    \/ OutDisconnectFromPort
    \/ OutRefreshPorts
    \/ OutMidi
    \/ OutReply

\* ================================================================ system
\* An App is built with MidiInputPlugin or with MidiOutputPlugin; the two
\* plugins share no state, so each behaviour follows one of them.
\* No native message has reached the input callback, the facade exists.
\* What the attempts of one enumeration find: the first `fails` attempts
\* cannot read a port name, the next one reads `first`, later ones `later`.
NoEnum == [fails |-> 0, first |-> <<>>, later |-> <<>>]

\* MidiEvent of lib.rs
MidiEvent(message) == [message |-> message]
\* No event of types.rs is being converted.
NoConv == [stage |-> "none"]
\* An App without the `Midi` plugin of lib.rs
NoLib == [is_debug |-> FALSE, events |-> <<>>, printed |-> <<>>]

EnvInit ==
    /\ dropped = FALSE
    /\ lib = NoLib
    /\ conv = NoConv
    /\ inNative = [n |-> 0, last |-> None]
    /\ inCallback = "ok"
    /\ enumEnv = NoEnum
    /\ enumK = 0
    /\ enumReturned = <<>>

Init ==
    /\ plugin \in {"input", "output"}
    /\ app = "running"
    /\ budget = MaxCmds
    /\ InInit
    /\ OutInit
    /\ EnvInit

Next == InNext \/ OutNext

Spec == Init /\ [][Next]_vars

\* ================================================================ claims
\* Number of replies of `replies` whose variant is `tag`.
CountTag(replies, tag) == Cardinality({i \in DOMAIN replies : replies[i][1] = tag})

\* The last handled Message was RefreshPorts, taken while Connected.
RefreshedWhileConnected(last) ==
    /\ last.cmd = RefreshPorts
    /\ IsSome(last.before.connection)

\* The reply of one enumeration: AvailablePorts or Error(PortRefreshError).
IsEnumerationReply(reply) ==
    \/ reply[1] = "AvailablePorts"
    \/ reply = Error(PortRefreshError)

\* C1: whenever a worker waits for its next command, exactly one of its two
\* handle fields is populated: the device handle (Idle) or the
\* (connection, port) pair (Connected), never both and never neither.
C1_ExactlyOneHandle ==
    /\ inTask.pc = "waiting" => (IsSome(inTask.input) # IsSome(inTask.connection))
    /\ outTask.pc = "waiting" => (IsSome(outTask.output) # IsSome(outTask.connection))

\* C1 witness: the input worker waits again after a refresh whose reconnect
\* failed, holding the device handle only.
C1_Witness ==
    /\ inTask.pc = "waiting"
    /\ RefreshedWhileConnected(inLast)
    /\ inLast.connect # "Ok"
    /\ IsSome(inTask.input)
    /\ IsNone(inTask.connection)

\* C2 as stated: a refresh taken while Connected whose reconnect succeeds
\* emits exactly one AvailablePorts and no Connected / Disconnected reply.
C2_Original ==
    /\ (RefreshedWhileConnected(inLast) /\ inLast.connect = "Ok") =>
          /\ CountTag(inLast.replies, "AvailablePorts") = 1
          /\ CountTag(inLast.replies, "Connected") = 0
          /\ CountTag(inLast.replies, "Disconnected") = 0
    /\ (RefreshedWhileConnected(outLast) /\ outLast.connect = "Ok") =>
          /\ CountTag(outLast.replies, "AvailablePorts") = 1
          /\ CountTag(outLast.replies, "Connected") = 0
          /\ CountTag(outLast.replies, "Disconnected") = 0

\* C2 amended: a refresh taken while Connected whose reconnect succeeds emits
\* exactly one reply, the result of the enumeration (AvailablePorts, or
\* Error(PortRefreshError) when every attempt failed), and no Connected and
\* no Disconnected reply; draining its replies leaves ConnectionStatus true.
C2_RefreshTransparent ==
    /\ (RefreshedWhileConnected(inLast) /\ inLast.connect = "Ok") =>
          /\ Len(inLast.replies) = 1
          /\ IsEnumerationReply(inLast.replies[1])
          /\ CountTag(inLast.replies, "Connected") = 0
          /\ CountTag(inLast.replies, "Disconnected") = 0
          /\ DrainConnected(inLast.replies, TRUE) = TRUE
          /\ IsSome(inLast.after.connection)
    /\ (RefreshedWhileConnected(outLast) /\ outLast.connect = "Ok") =>
          /\ Len(outLast.replies) = 1
          /\ IsEnumerationReply(outLast.replies[1])
          /\ CountTag(outLast.replies, "Connected") = 0
          /\ CountTag(outLast.replies, "Disconnected") = 0
          /\ OutDrainConnected(outLast.replies, TRUE) = TRUE
          /\ IsSome(outLast.after.connection)

\* C2 witness: the foreground saw Connected, the output worker then handled a
\* refresh with a successful reconnect, and the drain of its reply left
\* ConnectionStatus true.
C2_Witness ==
    /\ RefreshedWhileConnected(outLast)
    /\ outLast.connect = "Ok"
    /\ outReplies = <<>>
    /\ outConnected

\* C3 as stated: a refresh taken while Connected whose reconnect fails emits
\* AvailablePorts, Error(ConnectionError), Disconnected, in this order.
C3_Original ==
    /\ (RefreshedWhileConnected(inLast) /\ inLast.connect # "Ok") =>
          /\ Len(inLast.replies) = 3
          /\ inLast.replies[1][1] = "AvailablePorts"
          /\ inLast.replies[2] = Error(ConnectionError(inLast.connect))
          /\ inLast.replies[3] = Disconnected
    /\ (RefreshedWhileConnected(outLast) /\ outLast.connect # "Ok") =>
          /\ Len(outLast.replies) = 3
          /\ outLast.replies[1][1] = "AvailablePorts"
          /\ outLast.replies[2] = Error(ConnectionError(outLast.connect))
          /\ outLast.replies[3] = Disconnected

\* C3 amended: a refresh taken while Connected whose reconnect fails emits, in
\* this order, the result of the enumeration (AvailablePorts, or
\* Error(PortRefreshError) when every attempt failed), Error(ConnectionError)
\* and Disconnected, and the worker ends Idle.
C3_RefreshFailure ==
    /\ (RefreshedWhileConnected(inLast) /\ inLast.connect # "Ok") =>
          /\ Len(inLast.replies) = 3
          /\ IsEnumerationReply(inLast.replies[1])
          /\ inLast.replies[2] = Error(ConnectionError(inLast.connect))
          /\ inLast.replies[3] = Disconnected
          /\ inLast.after.input = Some(InDevice)
          /\ inLast.after.connection = None
    /\ (RefreshedWhileConnected(outLast) /\ outLast.connect # "Ok") =>
          /\ Len(outLast.replies) = 3
          /\ IsEnumerationReply(outLast.replies[1])
          /\ outLast.replies[2] = Error(ConnectionError(outLast.connect))
          /\ outLast.replies[3] = Disconnected
          /\ outLast.after.output = Some(OutDevice)
          /\ outLast.after.connection = None

\* C3 witness: the input worker handled a refresh while Connected, the
\* reconnect failed, and the three replies are on the event channel.
C3_Witness ==
    /\ RefreshedWhileConnected(inLast)
    /\ inLast.connect = "InvalidPort"
    /\ Len(inReplies) >= 3
    /\ inReplies[Len(inReplies)] = Disconnected
    /\ inTask.pc = "waiting"

\* The last handled Message was ConnectToPort.
HandledConnect(last) == last.cmd[1] = "ConnectToPort"

\* C4: ConnectToPort(p) whose native connect succeeds emits exactly one
\* Connected reply (and nothing else) and leaves the worker Connected, bound
\* to the requested port p.
C4_ConnectSuccess ==
    /\ (HandledConnect(inLast) /\ inLast.connect = "Ok") =>
          /\ inLast.replies = <<Connected>>
          /\ inLast.after.input = None
          /\ IsSome(inLast.after.connection)
          /\ Unwrap(inLast.after.connection)[2] = inLast.cmd[2]
    /\ (HandledConnect(outLast) /\ outLast.connect = "Ok") =>
          /\ outLast.replies = <<Connected>>
          /\ outLast.after.output = None
          /\ IsSome(outLast.after.connection)
          /\ Unwrap(outLast.after.connection)[2] = outLast.cmd[2]

\* C4 witness: the input worker, Connected to port 2, handled
\* ConnectToPort(1) successfully and is now bound to port 1.
C4_Witness ==
    /\ inLast.cmd = ConnectToPort(1)
    /\ inLast.connect = "Ok"
    /\ IsSome(inLast.before.connection)
    /\ Unwrap(inLast.before.connection)[2] = 2
    /\ inTask.connection = Some(<<ConnectCallback, 1>>)

\* C5: ConnectToPort whose native connect fails emits Error(ConnectionError),
\* followed by Disconnected if and only if the worker was Connected when the
\* command was taken, and leaves the worker Idle holding the device handle.
C5_ConnectFailure ==
    /\ (HandledConnect(inLast) /\ inLast.connect # "Ok") =>
          /\ inLast.replies =
                IF IsSome(inLast.before.connection)
                THEN <<Error(ConnectionError(inLast.connect)), Disconnected>>
                ELSE <<Error(ConnectionError(inLast.connect))>>
          /\ inLast.after.input = Some(InDevice)
          /\ inLast.after.connection = None
    /\ (HandledConnect(outLast) /\ outLast.connect # "Ok") =>
          /\ outLast.replies =
                IF IsSome(outLast.before.connection)
                THEN <<Error(ConnectionError(outLast.connect)), Disconnected>>
                ELSE <<Error(ConnectionError(outLast.connect))>>
          /\ outLast.after.output = Some(OutDevice)
          /\ outLast.after.connection = None

\* C5 witness: the output worker was Connected, a ConnectToPort failed, and it
\* is Idle again with Error then Disconnected sent.
C5_Witness ==
    /\ HandledConnect(outLast)
    /\ outLast.connect = "Other"
    /\ IsSome(outLast.before.connection)
    /\ outLast.replies = <<Error(ConnectionError("Other")), Disconnected>>
    /\ outTask.output = Some(OutDevice)

\* C6: DisconnectFromPort taken while Connected closes the connection, emits
\* exactly one Disconnected reply and leaves the worker Idle holding the
\* recovered device handle.
C6_Disconnect ==
    /\ (inLast.cmd = DisconnectFromPort /\ IsSome(inLast.before.connection)) =>
          /\ inLast.replies = <<Disconnected>>
          /\ inLast.after.input = Some(InDevice)
          /\ inLast.after.connection = None
    /\ (outLast.cmd = DisconnectFromPort /\ IsSome(outLast.before.connection)) =>
          /\ outLast.replies = <<Disconnected>>
          /\ outLast.after.output = Some(OutDevice)
          /\ outLast.after.connection = None

\* C6 witness: the input worker handled DisconnectFromPort while Connected.
C6_Witness ==
    /\ inLast.cmd = DisconnectFromPort
    /\ IsSome(inLast.before.connection)
    /\ inTask.pc = "waiting"
    /\ IsSome(inTask.input)

\* C7: DisconnectFromPort taken while Idle emits no reply and leaves the
\* worker unchanged; so in every state in which the worker waits, handling
\* DisconnectFromPort twice ends in the state reached by handling it once and
\* the second one emits nothing.
C7_DisconnectIdempotent ==
    /\ (inLast.cmd = DisconnectFromPort /\ IsNone(inLast.before.connection)) =>
          /\ inLast.replies = <<>>
          /\ inLast.after = inLast.before
    /\ (outLast.cmd = DisconnectFromPort /\ IsNone(outLast.before.connection)) =>
          /\ outLast.replies = <<>>
          /\ outLast.after = outLast.before
    /\ inTask.pc = "waiting" =>
          LET once == handle_disconnect_from_port(inTask)
              twice == handle_disconnect_from_port(once.self)
          IN  twice.self = once.self /\ twice.replies = <<>>
    /\ outTask.pc = "waiting" =>
          LET once == OutArmDisconnectFromPort(outTask)
              twice == OutArmDisconnectFromPort(once.self)
          IN  twice.self = once.self /\ twice.replies = <<>> /\ twice.writes = <<>>

\* C7 witness: the output worker handled DisconnectFromPort while Idle, right
\* after a disconnect whose Disconnected reply is still queued (no Error is
\* queued, so that reply is not the one of a failed connect or refresh).
C7_Witness ==
    /\ outLast.cmd = DisconnectFromPort
    /\ IsNone(outLast.before.connection)
    /\ outReplies # <<>>
    /\ outReplies[Len(outReplies)] = Disconnected
    /\ CountTag(outReplies, "Error") = 0
    /\ outTask.pc = "waiting"

\* The step takes the head of the output control channel.
OutTakes == Len(outMessages') < Len(outMessages)
\* The step takes a Midi command while the output worker is Idle / Connected.
OutTakesMidiIdle ==
    /\ OutTakes
    /\ Head(outMessages)[1] = "Midi"
    /\ IsNone(outTask.connection)
OutTakesMidiConnected ==
    /\ OutTakes
    /\ Head(outMessages)[1] = "Midi"
    /\ IsSome(outTask.connection)

C8_Step ==
    /\ OutTakesMidiIdle =>
          /\ outReplies' =
                Append(outReplies, Error(SendDisconnectedError(Head(outMessages)[2])))
          /\ outWrites' = outWrites
          /\ outTask' = outTask
          /\ outTask'.output = Some(OutDevice)
    /\ outWrites' # outWrites =>
          /\ OutTakesMidiConnected
          /\ \A i \in (Len(outWrites) + 1)..Len(outWrites') :
                outWrites'[i].bytes = Head(outMessages)[2].msg

\* C8: the output worker taking SendMidi(m) while Idle emits exactly
\* Error(SendDisconnectedError(m)) with the same m, makes no native write and
\* stays Idle; and m is never written later: a native write is only ever made
\* by the step that takes a SendMidi while Connected, and carries that
\* command's own bytes, so no ConnectToPort delivers an earlier message.
C8_SendWhileIdle == [][C8_Step]_vars

\* C8 witness: a SendMidi was refused while Idle (its error is still queued),
\* the worker then connected successfully, and nothing has been written.
C8_Witness ==
    /\ HandledConnect(outLast)
    /\ outLast.connect = "Ok"
    /\ CountTag(outReplies, "Error") = 1
    /\ \E m \in Messages : outReplies[Len(outReplies) - 1] = Error(SendDisconnectedError(m))
    /\ outReplies[Len(outReplies)] = Connected
    /\ outWrites = <<>>

\* The last handled Message was Midi, taken while Connected.
SentWhileConnected(last) ==
    /\ last.cmd[1] = "Midi"
    /\ IsSome(last.before.connection)

\* C9: SendMidi taken while Connected whose native write fails emits
\* Error(SendError) and no Disconnected and leaves the worker Connected on the
\* same connection and port; every SendMidi taken while Connected, also one
\* after a failed write, makes a write attempt on the connection's port.
C9_SendFailureKeepsConnection ==
    /\ (SentWhileConnected(outLast) /\ \E i \in DOMAIN outLast.writes : ~outLast.writes[i].ok) =>
          /\ outLast.replies = <<Error(SendError)>>
          /\ outLast.after = outLast.before
          /\ IsSome(outLast.after.connection)
    /\ SentWhileConnected(outLast) =>
          /\ Len(outLast.writes) >= 1
          /\ \A i \in DOMAIN outLast.writes :
                outLast.writes[i].port = Unwrap(outLast.before.connection)[2]

\* C9 witness: a native write failed and the next SendMidi was written on the
\* same port.
C9_Witness ==
    /\ SentWhileConnected(outLast)
    /\ Len(outWrites) = 2
    /\ ~outWrites[1].ok
    /\ outWrites[2].ok
    /\ outWrites[2].port = outWrites[1].port
    /\ IsSome(outTask.connection)

C10_Step ==
    /\ OutTakesMidiConnected =>
          \E sent \in BOOLEAN :
             outWrites' = Append(outWrites,
                                 NativeSend(Unwrap(outTask.connection)[2],
                                            Head(outMessages)[2].msg, sent))
    /\ (OutTakes /\ Head(outMessages)[1] = "Midi") =>
          /\ Len(outLast'.writes) <= 1
          /\ Len(outLast'.writes) = 1 \/ CountTag(outLast'.replies, "Error") = 1
    /\ OutTakes => outMessages' = Tail(outMessages)
    /\ (outMessages' # outMessages /\ ~OutTakes) =>
          /\ Len(outMessages') = Len(outMessages) + 1
          /\ SubSeq(outMessages', 1, Len(outMessages)) = outMessages
    /\ outWrites' # outWrites =>
          /\ Len(outWrites') = Len(outWrites) + 1
          /\ SubSeq(outWrites', 1, Len(outWrites)) = outWrites

\* C10: every SendMidi(m) taken while Connected makes exactly one native
\* write, on the connection's port, whose bytes are those of m; a SendMidi
\* yields one write attempt or one Error reply and never two writes; and the
\* writes are made in the order of the send() calls: send() appends at the
\* tail of the control channel, the worker takes its head, and each write is
\* appended to the native side when its command is taken.
C10_WritesInOrder == [][C10_Step]_vars

\* C10 witness: two different messages were sent while Connected and both were
\* written.
C10_Witness ==
    /\ SentWhileConnected(outLast)
    /\ Len(outWrites) = 2
    /\ outWrites[1].bytes # outWrites[2].bytes
    /\ outWrites[2].bytes = outLast.cmd[2].msg

\* ======================================================= input with traffic
\* The input plugin with the native side delivering messages to the callback
\* of the open connection.
MidiInit ==
    /\ plugin = "input"
    /\ app = "running"
    /\ budget = MaxCmds
    /\ InInit
    /\ OutInit
    /\ EnvInit

MidiNext == InNext \/ InCallback

SpecMidi == MidiInit /\ [][MidiNext]_vars

\* ---------------------------------------------------------------- C11
\* A step in which the native side called the callback of the connection.
CallbackStep == inNative'.n = inNative.n + 1
\* The message handed to the callback in that step.
Delivered == Unwrap(inNative'.last)

\* C11: in every Connected state, the one after a RefreshPorts included, a
\* native message whose length is not 3 produces no Midi reply and does not
\* fail the callback, and a 3-byte message produces exactly one Midi reply
\* that carries the same three bytes and the callback's timestamp.
C11_Step ==
    CallbackStep =>
        IF Len(Delivered.bytes) # 3
        THEN /\ inReplies' = inReplies
             /\ inCallback' = "ok"
             /\ app' = app
        ELSE /\ inReplies' = Append(inReplies,
                                    MidiReply(MidiData(Delivered.stamp, Delivered.bytes)))
             /\ inCallback' = "ok"
             /\ app' = app

C11_Original == [][C11_Step]_vars

\* The connection re-established by a refresh has received a message that is
\* not 3 bytes long, and the closure has panicked or queued a Midi reply.
C11_Witness ==
    /\ IsSome(inNative.last)
    /\ Unwrap(inNative.last).closure = RefreshCallback
    /\ Len(Unwrap(inNative.last).bytes) # 3
    /\ \/ inCallback = "panicked"
       \/ CountTag(inReplies, "Midi") > 0

\* ---------------------------------------------------------------- C12
\* The MidiData of the Midi replies of a queue, oldest first.
MidiIn(replies) ==
    LET sel == SelectSeq(replies, LAMBDA r : r[1] = "Midi")
    IN  [i \in 1..Len(sel) |-> sel[i][2]]

\* A run of the drain system that found replies.
InDrainStep == inReplies # <<>> /\ inReplies' = <<>>

\* C12: however many 3-byte messages the native side delivers while the
\* foreground does not drain, the callback is never blocked and never fails,
\* each message is queued once behind the earlier ones, and the next drain
\* forwards one MidiData event per queued message, in the order of arrival.
C12_Step ==
    /\ (CallbackStep /\ Len(Delivered.bytes) = 3) =>
           /\ inReplies' = Append(inReplies,
                                  MidiReply(MidiData(Delivered.stamp, Delivered.bytes)))
           /\ inCallback' = "ok"
           /\ app' = app
    /\ InDrainStep => inMidiEvents' = MidiIn(inReplies)
    /\ (~InDrainStep /\ ~CallbackStep) => MidiIn(inReplies') = MidiIn(inReplies)
    /\ (/\ plugin = "input" /\ app = "running" /\ inCallback = "ok"
        /\ IsSome(inTask.connection) /\ inCalls + inNative.n < budget)
           => ENABLED InCallback

C12_NoDrainNoLoss == [][C12_Step]_vars

\* Two 3-byte messages arrived between two drains and one drain forwarded
\* both, the earlier one first.
C12_Witness ==
    inMidiEvents = <<MidiData(Stamp(1), <<144, 60, 127>>),
                     MidiData(Stamp(2), <<144, 60, 127>>)>>

\* ---------------------------------------------------------------- C13
\* Input side: what a step may do to the command queue and the reply queue.
C13_In ==
    /\ inMessages' # inMessages =>
           \/ /\ inCalls' = inCalls + 1
              /\ inMessages' = Append(inMessages, inMessages'[Len(inMessages')])
              /\ inReplies' = inReplies
           \/ /\ inMessages # <<>>
              /\ inMessages' = Tail(inMessages)
              /\ inLast'.cmd = Head(inMessages)
              /\ inReplies' = inReplies \o inLast'.replies
              /\ inCalls' = inCalls
    /\ inMessages' = inMessages =>
           \/ inReplies' = inReplies
           \/ inReplies' = <<>>
           \/ inTask.pc = "start" /\ Len(inReplies') = Len(inReplies) + 1

\* Output side: the same.
C13_Out ==
    /\ outMessages' # outMessages =>
           \/ /\ outCalls' = outCalls + 1
              /\ outMessages' = Append(outMessages, outMessages'[Len(outMessages')])
              /\ outReplies' = outReplies
           \/ /\ outMessages # <<>>
              /\ outMessages' = Tail(outMessages)
              /\ outLast'.cmd = Head(outMessages)
              /\ outReplies' = outReplies \o outLast'.replies
              /\ outCalls' = outCalls
    /\ outMessages' = outMessages =>
           \/ outReplies' = outReplies
           \/ outReplies' = <<>>
           \/ outTask.pc = "start" /\ Len(outReplies') = Len(outReplies) + 1

\* C13: the commands of the foreground caller are queued behind the earlier
\* ones, the worker takes the oldest queued command, one per step, and removes
\* it, and the replies of the command taken go behind every reply that is
\* already on the event channel, so the replies of command k precede those of
\* command k+1.
C13_CommandsInOrder == [][C13_In /\ C13_Out]_vars

\* Two commands were handled without a drain in between, a third waits, and
\* the reply of the first precedes the reply of the second.
C13_Witness ==
    \/ /\ inLast.cmd = DisconnectFromPort
       /\ inMessages # <<>>
       /\ \E i \in 1..(Len(inReplies) - 1) :
              inReplies[i] = Connected /\ inReplies[i + 1] = Disconnected
    \/ /\ outLast.cmd = DisconnectFromPort
       /\ outMessages # <<>>
       /\ \E i \in 1..(Len(outReplies) - 1) :
              outReplies[i] = Connected /\ outReplies[i + 1] = Disconnected

\* ================================================== dropping the facade
\* The foreground drops the MidiInput / MidiOutput resource and with it the
\* sender of the control channel and the receiver of the event channel.
Drop ==
    /\ app = "running"
    /\ ~dropped
    /\ dropped' = TRUE
    /\ UNCHANGED <<plugin, app, budget, inNative, inCallback, lib, conv, enumVars, inVars, outVars>>

\* poll (input.rs) on an empty control channel without sender: recv() returns
\* Err, the `if let` is skipped, the waker is woken and poll returns Pending.
InPollDisconnected ==
    /\ plugin = "input"
    /\ dropped
    /\ inTask.pc = "waiting"
    /\ inMessages = <<>>
    /\ inTask' = [inTask EXCEPT !.pc = "spinning"]
    /\ UNCHANGED <<envVars, plugin, app, inMessages, inReplies, inPorts, inConnected,
                   inCalls, inLast, inEvents, outVars>>

\* poll (output.rs), the same
OutPollDisconnected ==
    /\ plugin = "output"
    /\ dropped
    /\ outTask.pc = "waiting"
    /\ outMessages = <<>>
    /\ outTask' = [outTask EXCEPT !.pc = "spinning"]
    /\ UNCHANGED <<envVars, plugin, app, inVars, outMessages, outReplies, outPorts,
                   outConnected, outWrites, outCalls, outLast, outEvents>>

DropInit ==
    /\ plugin \in {"input", "output"}
    /\ app = "running"
    /\ budget = MaxCmds - 1
    /\ InInit
    /\ OutInit
    /\ EnvInit

DropNext == Next \/ Drop \/ InPollDisconnected \/ OutPollDisconnected

SpecDrop == DropInit /\ [][DropNext]_vars

\* ---------------------------------------------------------------- C14
\* C14: once the foreground has dropped its channel endpoints, a worker that
\* finds the control channel empty leaves its receive loop and its task
\* terminates.
C14_Step ==
    /\ (dropped /\ inMessages = <<>> /\ inTask' # inTask)
           => inTask'.pc \in {"done", "panicked"}
    /\ (dropped /\ outMessages = <<>> /\ outTask' # outTask)
           => outTask'.pc \in {"done", "panicked"}

C14_Original == [][C14_Step]_vars

\* The facade is gone, the control channel is empty, and the worker has been
\* polled: it is neither finished nor waiting for a command.
C14_Witness ==
    /\ dropped
    /\ \/ inMessages = <<>> /\ inTask.pc = "spinning"
       \/ outMessages = <<>> /\ outTask.pc = "spinning"

\* ============================================================== fairness
\* The task pool keeps polling a worker that asked to be woken.
InWorker == InStart \/ InConnectToPort \/ InDisconnectFromPort \/ InRefreshPorts
OutWorker ==
    OutStart \/ OutConnectToPort \/ OutDisconnectFromPort \/ OutRefreshPorts \/ OutMidi

LiveInit ==
    /\ plugin \in {"input", "output"}
    /\ app = "running"
    /\ budget = MaxCmds - 1
    /\ InInit
    /\ OutInit
    /\ EnvInit

SpecLive == LiveInit /\ [][Next]_vars /\ WF_vars(InWorker) /\ WF_vars(OutWorker)

\* ---------------------------------------------------------------- C15
\* The worker has emitted an Error reply that is queued or was drained.
InErrorSeen == inErrEvents # <<>> \/ CountTag(inReplies, "Error") > 0
OutErrorSeen == outErrEvents # <<>> \/ CountTag(outReplies, "Error") > 0

\* A step that puts an Error reply on the event channel leaves the worker
\* waiting for the next command.
C15_Step ==
    /\ CountTag(inReplies', "Error") > CountTag(inReplies, "Error")
           => inTask'.pc = "waiting"
    /\ CountTag(outReplies', "Error") > CountTag(outReplies, "Error")
           => outTask'.pc = "waiting"

\* C15: after any Error reply the worker stays alive, and, the foreground
\* endpoints existing, every command that is queued is eventually taken and
\* handled.
C15_AliveAfterError ==
    /\ [][C15_Step]_vars
    /\ (InErrorSeen /\ inMessages # <<>>) ~> (inMessages = <<>>)
    /\ (OutErrorSeen /\ outMessages # <<>>) ~> (outMessages = <<>>)

\* A failed connect left its Error on the event channel and the command
\* behind it, a connect, was handled and succeeded.
C15_Witness ==
    \/ /\ CountTag(inReplies, "Error") > 0
       /\ inLast.replies = <<Connected>>
       /\ inReplies[Len(inReplies)] = Connected
    \/ /\ CountTag(outReplies, "Error") > 0
       /\ outLast.replies = <<Connected>>
       /\ outReplies[Len(outReplies)] = Connected

\* ===================================================== one enumeration
\* get_available_ports of input.rs and of output.rs, one loop iteration per
\* step.  `plugin` says which of the two runs.
Retries == IF plugin = "input" THEN InRetries ELSE OutRetries

\* ports() followed by port_name of every port, collected into a Result.
Attempt(env, k) ==
    IF k <= env.fails THEN <<"Err">>
    ELSE IF k = env.fails + 1 THEN <<"Ok", env.first>>
    ELSE <<"Ok", env.later>>

\* A loop that tries once more than the range allows.
Mut_PortsAttemptOneMore ==
    /\ enumReturned = <<>>
    /\ enumK < Retries + 1
    /\ enumK' = enumK + 1
    /\ enumReturned' = IF Attempt(enumEnv, enumK')[1] = "Ok"
                       THEN <<AvailablePorts(Attempt(enumEnv, enumK')[2])>>
                       ELSE <<>>
    /\ UNCHANGED <<plugin, app, budget, dropped, inNative, inCallback, lib, conv, enumEnv,
                   inVars, outVars>>

\* One iteration of `for _ in 0..10`: `return Reply::AvailablePorts(ports)`
\* if the attempt is Ok.
PortsAttempt ==
    /\ enumReturned = <<>>
    /\ enumK < Retries
    /\ enumK' = enumK + 1
    /\ enumReturned' = IF Attempt(enumEnv, enumK')[1] = "Ok"
                       THEN <<AvailablePorts(Attempt(enumEnv, enumK')[2])>>
                       ELSE <<>>
    /\ UNCHANGED <<plugin, app, budget, dropped, inNative, inCallback, lib, conv, enumEnv,
                   inVars, outVars>>

\* The range is exhausted: Reply::Error(PortRefreshError) is returned.
PortsGiveUp ==
    /\ enumReturned = <<>>
    /\ enumK = Retries
    /\ enumReturned' = <<Error(PortRefreshError)>>
    /\ UNCHANGED <<plugin, app, budget, dropped, inNative, inCallback, lib, conv, enumEnv, enumK,
                   inVars, outVars>>

EnumInit ==
    /\ plugin \in {"input", "output"}
    /\ app = "running"
    /\ budget = MaxCmds
    /\ InInit
    /\ OutInit
    /\ dropped = FALSE
    /\ inNative = [n |-> 0, last |-> None]
    /\ inCallback = "ok"
    /\ lib = NoLib
    /\ conv = NoConv
    /\ enumEnv \in [fails : EnumFailRuns, first : PortLists, later : PortLists]
    /\ enumK = 0
    /\ enumReturned = <<>>

EnumNext == PortsAttempt \/ PortsGiveUp

SpecEnum == EnumInit /\ [][EnumNext]_vars

\* ---------------------------------------------------------------- C16
\* C16: one enumeration makes at most 10 attempts and never an 11th; it
\* returns exactly one reply, which is AvailablePorts with the list of the
\* first attempt that succeeded, or Error(PortRefreshError), the latter if and
\* only if all 10 attempts failed.
C16_Enumeration ==
    /\ enumK <= 10
    /\ Len(enumReturned) <= 1
    /\ (enumReturned = <<>>) => (enumK <= enumEnv.fails /\ ENABLED EnumNext)
    /\ (enumReturned # <<>>) =>
          /\ enumReturned[1] =
                IF enumEnv.fails >= 10 THEN Error(PortRefreshError)
                ELSE AvailablePorts(enumEnv.first)
          /\ enumK = IF enumEnv.fails >= 10 THEN 10 ELSE enumEnv.fails + 1
          /\ enumReturned[1] =
                IF plugin = "input"
                THEN InGetAvailablePorts(enumEnv.fails, enumEnv.first)
                ELSE OutGetAvailablePorts(enumEnv.fails, enumEnv.first)

\* Nine attempts failed, the tenth read a list that a later attempt would no
\* longer read, and that list was returned.
C16_Witness ==
    /\ enumEnv.fails = 9
    /\ enumEnv.first # enumEnv.later
    /\ enumK = 10
    /\ enumReturned = <<AvailablePorts(enumEnv.first)>>

\* ---------------------------------------------------------------- C17
\* The payloads of the Error replies of a queue, oldest first.
ErrorsIn(replies) ==
    LET sel == SelectSeq(replies, LAMBDA r : r[1] = "Error")
    IN  [i \in 1..Len(sel) |-> sel[i][2]]

\* A run of the output drain system that found replies.
OutDrainStep == outReplies # <<>> /\ outReplies' = <<>>

C17_Step ==
    /\ InDrainStep =>
          /\ inErrEvents' = ErrorsIn(inReplies)
          /\ CountTag(inReplies, "AvailablePorts") = 0 => inPorts' = inPorts
    /\ OutDrainStep =>
          /\ outErrEvents' = ErrorsIn(outReplies)
          /\ CountTag(outReplies, "AvailablePorts") = 0 => outPorts' = outPorts

\* C17: a drained Error reply is forwarded as one error event and does not
\* touch the port snapshot: after a drain that found the Error of a failed
\* refresh and no AvailablePorts reply, ports() is the list held before.
C17_ErrorKeepsSnapshot == [][C17_Step]_vars

\* The Error(PortRefreshError) of a refresh was drained and forwarded, and the
\* snapshot still holds a list.
C17_Witness ==
    \/ /\ inErrEvents = <<PortRefreshError>>
       /\ inLast.cmd = RefreshPorts
       /\ inLast.replies = <<Error(PortRefreshError)>>
       /\ inReplies = <<>>
       /\ inPorts # <<>>
    \/ /\ outErrEvents = <<PortRefreshError>>
       /\ outLast.cmd = RefreshPorts
       /\ outLast.replies = <<Error(PortRefreshError)>>
       /\ outReplies = <<>>
       /\ outPorts # <<>>

\* ---------------------------------------------------------------- C18
\* The list of the last AvailablePorts reply of a queue that holds one.
LastPortsIn(replies) ==
    LET sel == SelectSeq(replies, LAMBDA r : r[1] = "AvailablePorts")
    IN  sel[Len(sel)][2]

C18_Step ==
    /\ inPorts' = IF InDrainStep /\ CountTag(inReplies, "AvailablePorts") > 0
                  THEN LastPortsIn(inReplies)
                  ELSE inPorts
    /\ outPorts' = IF OutDrainStep /\ CountTag(outReplies, "AvailablePorts") > 0
                   THEN LastPortsIn(outReplies)
                   ELSE outPorts

\* C18: the port snapshot is empty at the start, no step but a drain that
\* finds an AvailablePorts reply changes it, and such a drain makes it the
\* list of the last AvailablePorts reply it finds, whatever it held before.
C18_SnapshotReplaced ==
    /\ inPorts = <<>>
    /\ outPorts = <<>>
    /\ [][C18_Step]_vars

\* The snapshot is the shorter list, which the last refresh returned: it was
\* drained and no entry of a longer list is left in the snapshot.
C18_Witness ==
    \/ /\ Len(inPorts) = MaxPorts - 1
       /\ inLast.cmd = RefreshPorts
       /\ inLast.replies[1] = AvailablePorts(inPorts)
       /\ inReplies = <<>>
    \/ /\ Len(outPorts) = MaxPorts - 1
       /\ outLast.cmd = RefreshPorts
       /\ outLast.replies[1] = AvailablePorts(outPorts)
       /\ outReplies = <<>>

\* ---------------------------------------------------------------- C19
\* The Connected and Disconnected replies of a queue.
StatusIn(replies) ==
    SelectSeq(replies, LAMBDA r : r[1] \in {"Connected", "Disconnected"})

C19_Step ==
    /\ inConnected' = IF InDrainStep /\ StatusIn(inReplies) # <<>>
                      THEN StatusIn(inReplies)[Len(StatusIn(inReplies))] = Connected
                      ELSE inConnected
    /\ outConnected' = IF OutDrainStep /\ StatusIn(outReplies) # <<>>
                       THEN StatusIn(outReplies)[Len(StatusIn(outReplies))] = Connected
                       ELSE outConnected

\* C19: ConnectionStatus changes only in a drain that finds a Connected or a
\* Disconnected reply, and becomes true or false as the last of them says;
\* AvailablePorts, Error and Midi replies leave it as it was.
C19_StatusOnlyByDrain == [][C19_Step]_vars

\* An Error(ConnectionError) was drained and the status is true: the error
\* did not reset what a Connected reply had set.
C19_Witness ==
    \/ /\ inConnected
       /\ \E i \in DOMAIN inErrEvents : inErrEvents[i][1] = "ConnectionError"
    \/ /\ outConnected
       /\ \E i \in DOMAIN outErrEvents : outErrEvents[i][1] = "ConnectionError"

\* ---------------------------------------------------------------- C20
\* A step in which the foreground calls connect, disconnect, refresh_ports
\* or send.
FacadeStep ==
    \/ inCalls' # inCalls
    \/ outCalls' # outCalls
    \/ app = "running" /\ app' = "panicked"

\* C20: each call of the facade puts exactly one command, the one of the
\* call, on the control channel and returns; it changes neither ports() nor
\* the ConnectionStatus.
C20_Step ==
    FacadeStep =>
        /\ app' = app
        /\ \/ /\ Len(inMessages') = Len(inMessages) + 1
              /\ inMessages' = Append(inMessages, inMessages'[Len(inMessages')])
              /\ outMessages' = outMessages
           \/ /\ Len(outMessages') = Len(outMessages) + 1
              /\ outMessages' = Append(outMessages, outMessages'[Len(outMessages')])
              /\ inMessages' = inMessages
        /\ inPorts' = inPorts /\ outPorts' = outPorts
        /\ inConnected' = inConnected /\ outConnected' = outConnected
        /\ inTask' = inTask /\ outTask' = outTask

C20_Original == [][C20_Step]_vars

\* The worker died when it could not open the device, and a call of the
\* facade ended in a panic of the foreground.
C20_Witness ==
    /\ app = "panicked"
    /\ \/ plugin = "input" /\ inTask.pc = "panicked" /\ inMessages = <<>>
       \/ plugin = "output" /\ outTask.pc = "panicked" /\ outMessages = <<>>

\* ============================================================== frames
\* reply (input.rs), a run that finds the event channel empty: try_recv
\* returns Err at once, the loop body never runs and nothing is written.
InReplyIdle ==
    /\ plugin = "input"
    /\ app = "running"
    /\ ~dropped
    /\ inReplies = <<>>
    /\ inErrEvents' = <<>>
    /\ inMidiEvents' = <<>>
    /\ inChanged' = FALSE
    /\ UNCHANGED <<envVars, plugin, app, inTask, inMessages, inReplies, inPorts,
                   inConnected, inCalls, inLast, outVars>>

\* reply (output.rs), the same
OutReplyIdle ==
    /\ plugin = "output"
    /\ app = "running"
    /\ ~dropped
    /\ outReplies = <<>>
    /\ outErrEvents' = <<>>
    /\ outChanged' = FALSE
    /\ UNCHANGED <<envVars, plugin, app, inVars, outTask, outMessages, outReplies,
                   outPorts, outConnected, outWrites, outCalls, outLast>>

FrameInit ==
    /\ plugin \in {"input", "output"}
    /\ app = "running"
    /\ budget = MaxCmds - 1
    /\ InInit
    /\ OutInit
    /\ EnvInit

FrameNext == Next \/ InReplyIdle \/ OutReplyIdle

SpecFrame == FrameInit /\ [][FrameNext]_vars

\* ---------------------------------------------------------------- C21
\* What one drain of the input (output) side writes when it finds `replies`.
C21_In ==
    /\ Len(inReplies') < Len(inReplies) =>
          /\ inReplies' = <<>>
          /\ inErrEvents' = ErrorsIn(inReplies)
          /\ inMidiEvents' = MidiIn(inReplies)
          /\ inPorts' = IF CountTag(inReplies, "AvailablePorts") > 0
                        THEN LastPortsIn(inReplies) ELSE inPorts
          /\ inConnected' = IF StatusIn(inReplies) # <<>>
                            THEN StatusIn(inReplies)[Len(StatusIn(inReplies))] = Connected
                            ELSE inConnected
    /\ (plugin = "input" /\ app = "running" /\ ~dropped)
          => ENABLED (InReply \/ InReplyIdle)
C21_Out ==
    /\ Len(outReplies') < Len(outReplies) =>
          /\ outReplies' = <<>>
          /\ outErrEvents' = ErrorsIn(outReplies)
          /\ outPorts' = IF CountTag(outReplies, "AvailablePorts") > 0
                         THEN LastPortsIn(outReplies) ELSE outPorts
          /\ outConnected' = IF StatusIn(outReplies) # <<>>
                             THEN StatusIn(outReplies)[Len(StatusIn(outReplies))] = Connected
                             ELSE outConnected
    /\ (plugin = "output" /\ app = "running" /\ ~dropped)
          => ENABLED (OutReply \/ OutReplyIdle)

\* C21: one run of the drain takes every reply that is on the event channel,
\* oldest first, and leaves the channel empty; on an empty channel it is not
\* blocked: it can run and returns at once.
C21_DrainTakesAll == [][C21_In /\ C21_Out]_vars

\* One drain found two Error replies and forwarded both, in the order in
\* which the worker had sent them; the channel is empty.
C21_Witness ==
    \/ /\ inReplies = <<>>
       /\ inErrEvents = <<ConnectionError("InvalidPort"), ConnectionError("Other")>>
    \/ /\ outReplies = <<>>
       /\ outErrEvents = <<ConnectionError("InvalidPort"), ConnectionError("Other")>>

\* ---------------------------------------------------------------- C30
\* C30: a run of the drain marks the MidiInput (MidiOutput) resource changed
\* if and only if it processed at least one AvailablePorts reply, and no
\* other step marks it.
C30_Step ==
    /\ InDrainStep => (inChanged' <=> CountTag(inReplies, "AvailablePorts") > 0)
    /\ ~InDrainStep => (inChanged' => inChanged)
    /\ OutDrainStep => (outChanged' <=> CountTag(outReplies, "AvailablePorts") > 0)
    /\ ~OutDrainStep => (outChanged' => outChanged)

C30_ChangedIffPorts == [][C30_Step]_vars

\* The last run of the drain forwarded an Error, so it did process replies,
\* and it did not mark the resource changed.
C30_Witness ==
    \/ inErrEvents # <<>> /\ ~inChanged /\ inPorts # <<>>
    \/ outErrEvents # <<>> /\ ~outChanged /\ outPorts # <<>>

\* ============================================= a caller that never refreshes
\* The foreground calls connect, disconnect and send, and never refresh_ports.
NoRefreshNext ==
    \/ InConnectCall \/ InDisconnectCall
    \/ InStart \/ InConnectToPort \/ InDisconnectFromPort \/ InReply
    \/ OutConnectCall \/ OutDisconnectCall \/ OutSendCall
    \/ OutStart \/ OutConnectToPort \/ OutDisconnectFromPort \/ OutMidi \/ OutReply

SpecNoRefresh == Init /\ [][NoRefreshNext]_vars

\* ---------------------------------------------------------------- C22
C22_In ==
    /\ inTask.pc # "start" => inTask'.pc # "start"
    /\ (inTask.pc = "start" /\ inTask'.pc = "waiting") =>
          /\ inReplies = <<>>
          /\ Len(inReplies') = 1
          /\ IsEnumerationReply(inReplies'[1])
    /\ (inTask.pc # "start" \/ inTask'.pc # "waiting") =>
          /\ CountTag(inReplies', "AvailablePorts") <= CountTag(inReplies, "AvailablePorts")
          /\ CountTag(inReplies', "Error") > CountTag(inReplies, "Error") =>
                 inReplies'[Len(inReplies')] # Error(PortRefreshError)
    /\ inPorts' # inPorts =>
          /\ inPorts = <<>>
          /\ InDrainStep
          /\ inReplies[1] = AvailablePorts(inPorts')
    /\ (InDrainStep /\ inReplies[1][1] = "AvailablePorts") =>
          inPorts' = inReplies[1][2]
C22_Out ==
    /\ outTask.pc # "start" => outTask'.pc # "start"
    /\ (outTask.pc = "start" /\ outTask'.pc = "waiting") =>
          /\ outReplies = <<>>
          /\ Len(outReplies') = 1
          /\ IsEnumerationReply(outReplies'[1])
    /\ (outTask.pc # "start" \/ outTask'.pc # "waiting") =>
          /\ CountTag(outReplies', "AvailablePorts") <= CountTag(outReplies, "AvailablePorts")
          /\ CountTag(outReplies', "Error") > CountTag(outReplies, "Error") =>
                 outReplies'[Len(outReplies')] # Error(PortRefreshError)
    /\ outPorts' # outPorts =>
          /\ outPorts = <<>>
          /\ OutDrainStep
          /\ outReplies[1] = AvailablePorts(outPorts')
    /\ (OutDrainStep /\ outReplies[1][1] = "AvailablePorts") =>
          outPorts' = outReplies[1][2]

\* C22: the worker sends the result of its first enumeration once, on the
\* still empty event channel, so before the replies of any command, and
\* nothing else sends an enumeration result while no refresh is issued; the
\* drain that finds it makes its list the port snapshot, and connect, send
\* and disconnect leave that snapshot as it is.
C22_StartupSnapshot == [][C22_In /\ C22_Out]_vars

\* The startup list was drained, a connect and a disconnect (and, on the
\* output side, a send) were handled and drained, and the snapshot holds.
C22_Witness ==
    \/ /\ inPorts # <<>>
       /\ inLast.cmd = DisconnectFromPort
       /\ inLast.replies = <<Disconnected>>
       /\ inReplies = <<>>
       /\ ~inConnected
    \/ /\ outPorts # <<>>
       /\ outWrites # <<>>
       /\ outLast.cmd = DisconnectFromPort
       /\ outLast.replies = <<Disconnected>>
       /\ outReplies = <<>>
       /\ ~outConnected

\* ---------------------------------------------------------------- C23
\* C23: a RefreshPorts handled while the worker is Idle emits exactly one
\* reply, the result of the enumeration, no Connected and no Disconnected,
\* and leaves the worker Idle with the device handle it had.
C23_RefreshIdle ==
    /\ (inLast.cmd = RefreshPorts /\ IsSome(inLast.before.input)) =>
          /\ Len(inLast.replies) = 1
          /\ IsEnumerationReply(inLast.replies[1])
          /\ inLast.after = inLast.before
          /\ IsNone(inLast.after.connection)
    /\ (outLast.cmd = RefreshPorts /\ IsSome(outLast.before.output)) =>
          /\ Len(outLast.replies) = 1
          /\ IsEnumerationReply(outLast.replies[1])
          /\ outLast.after = outLast.before
          /\ IsNone(outLast.after.connection)

\* The last command handled was a refresh in the Idle state, after an
\* earlier connection had been closed.
C23_Witness ==
    \/ /\ inLast.cmd = RefreshPorts
       /\ IsSome(inLast.before.input)
       /\ inLast.replies[1][1] = "AvailablePorts"
       /\ CountTag(inReplies, "Disconnected") > 0
    \/ /\ outLast.cmd = RefreshPorts
       /\ IsSome(outLast.before.output)
       /\ outLast.replies[1][1] = "AvailablePorts"
       /\ CountTag(outReplies, "Disconnected") > 0

\* ---------------------------------------------------------------- C24
\* The port a task is connected to.
PortOf(task) == Unwrap(task.connection)[2]

C24_In ==
    /\ (/\ Len(inMessages') < Len(inMessages)
        /\ Head(inMessages) = RefreshPorts
        /\ IsSome(inTask.connection)
        /\ IsSome(inTask'.connection)) => PortOf(inTask') = PortOf(inTask)
    /\ (/\ IsSome(inTask'.connection)
        /\ (IsNone(inTask.connection) \/ PortOf(inTask') # PortOf(inTask)))
           => /\ Len(inMessages') < Len(inMessages)
              /\ Head(inMessages) = ConnectToPort(PortOf(inTask'))
C24_Out ==
    /\ (/\ Len(outMessages') < Len(outMessages)
        /\ Head(outMessages) = RefreshPorts
        /\ IsSome(outTask.connection)
        /\ IsSome(outTask'.connection)) => PortOf(outTask') = PortOf(outTask)
    /\ (/\ IsSome(outTask'.connection)
        /\ (IsNone(outTask.connection) \/ PortOf(outTask') # PortOf(outTask)))
           => /\ Len(outMessages') < Len(outMessages)
              /\ Head(outMessages) = ConnectToPort(PortOf(outTask'))

\* C24: only a ConnectToPort(p) that succeeds binds the worker to a port p,
\* and a RefreshPorts handled while Connected to p leaves the worker, when
\* the reconnect succeeds, Connected to the same p, whatever ports the new
\* enumeration lists.
C24_ReconnectSamePort == [][C24_In /\ C24_Out]_vars

\* A refresh was handled while Connected to the last port, the new
\* enumeration no longer lists that port, and the worker is Connected to it.
C24_Witness ==
    \/ /\ inLast.cmd = RefreshPorts
       /\ IsSome(inLast.before.connection)
       /\ inLast.replies = <<AvailablePorts([i \in 1..(MaxPorts - 1) |-> <<PortName(i), i>>])>>
       /\ IsSome(inTask.connection)
       /\ PortOf(inTask) = MaxPorts
    \/ /\ outLast.cmd = RefreshPorts
       /\ IsSome(outLast.before.connection)
       /\ outLast.replies = <<AvailablePorts([i \in 1..(MaxPorts - 1) |-> <<PortName(i), i>>])>>
       /\ IsSome(outTask.connection)
       /\ PortOf(outTask) = MaxPorts

\* ================================= handlers beside the native MIDI thread
\* handle_refresh_ports in the Connected state and a successful
\* handle_connect_to_port, each in two steps, with the native side free to
\* produce a message in between.
\* No closure is registered with the native side.
NoCallback == [callback |-> "none"]

\* First half: `self.connection.take()` and `conn.close()`.  The closed
\* connection's port is a local of the handler until the reconnect.
InRefreshClose ==
    /\ InTake("RefreshPorts")
    /\ app = "running"
    /\ IsSome(inTask.connection)
    /\ inTask' = [pc |-> "reconnecting", input |-> None, connection |-> None,
                  closed |-> Unwrap(inTask.connection)]
    /\ UNCHANGED <<envVars, plugin, app, inMessages, inReplies, inPorts, inConnected,
                   inCalls, inLast, inEvents, outVars>>

\* A message that would be sent to a closure the native side buffers for the
\* next connection.
Mut_InNativeInGapBuffered ==
    /\ plugin = "input"
    /\ app = "running"
    /\ inTask.pc = "reconnecting"
    /\ inCalls + inNative.n < budget
    /\ \E message \in NativeBytes :
         /\ inNative' = [n |-> inNative.n + 1,
                         last |-> Some([stamp |-> Stamp(inNative.n + 1), bytes |-> message,
                                        closure |-> NoCallback])]
         /\ inReplies' = inReplies \o RefreshClosure(Stamp(inNative.n + 1), message).replies
    /\ UNCHANGED <<plugin, app, budget, dropped, inCallback, lib, conv, enumVars, inTask, inMessages,
                   inPorts, inConnected, inCalls, inLast, inEvents, outVars>>

\* The device produces a message while the port is closed: the native side
\* has no closure to call.
InNativeInGap ==
    /\ plugin = "input"
    /\ app = "running"
    /\ inTask.pc = "reconnecting"
    /\ inCalls + inNative.n < budget
    /\ \E message \in NativeBytes :
         inNative' = [n |-> inNative.n + 1,
                      last |-> Some([stamp |-> Stamp(inNative.n + 1), bytes |-> message,
                                     closure |-> NoCallback])]
    /\ UNCHANGED <<plugin, app, budget, dropped, inCallback, lib, conv, enumVars, inVars, outVars>>

\* Second half: get_available_ports, `i.connect(&port, ..)` and the sends of
\* poll.
InRefreshReconnect ==
    /\ plugin = "input"
    /\ app = "running"
    /\ inTask.pc = "reconnecting"
    /\ \E fails \in FailRuns, ports \in PortLists, outcome \in ConnectOutcomes :
         LET self == [pc |-> "waiting", input |-> None,
                      connection |-> Some(inTask.closed)]
             r == handle_refresh_ports(self, fails, ports, outcome)
         IN  /\ inMessages' = Tail(inMessages)
             /\ IF dropped /\ r.replies # <<>>
                THEN /\ inTask' = DeadTask
                     /\ inReplies' = inReplies
                     /\ inLast' = [cmd |-> RefreshPorts, before |-> self, after |-> DeadTask,
                                   replies |-> <<>>, connect |-> outcome]
                ELSE /\ inTask' = r.self
                     /\ inReplies' = inReplies \o r.replies
                     /\ inLast' = [cmd |-> RefreshPorts, before |-> self, after |-> r.self,
                                   replies |-> r.replies, connect |-> outcome]
    /\ UNCHANGED <<envVars, plugin, app, inPorts, inConnected, inCalls, inEvents, outVars>>

\* handle_connect_to_port up to the return of a successful `i.connect(..)`:
\* the closure is registered with the native side, which may call it from
\* its own thread; the handler's replies are not sent yet.
InConnectOpen ==
    /\ InTake("ConnectToPort")
    /\ app = "running"
    /\ IsSome(inTask.input) \/ IsSome(inTask.connection)
    /\ inTask' = [pc |-> "announcing", input |-> None,
                  connection |-> Some(<<ConnectCallback, Head(inMessages)[2]>>),
                  before |-> inTask]
    /\ UNCHANGED <<envVars, plugin, app, inMessages, inReplies, inPorts, inConnected,
                   inCalls, inLast, inEvents, outVars>>

\* The rest of it: the handler returns and poll sends its replies.
InConnectAnnounce ==
    /\ plugin = "input"
    /\ app = "running"
    /\ inTask.pc = "announcing"
    /\ LET self == inTask.before
           r == handle_connect_to_port(self, Head(inMessages)[2], "Ok")
       IN  /\ inMessages' = Tail(inMessages)
           /\ IF dropped /\ r.replies # <<>>
              THEN /\ inTask' = DeadTask
                   /\ inReplies' = inReplies
                   /\ inLast' = [cmd |-> Head(inMessages), before |-> self,
                                 after |-> DeadTask, replies |-> <<>>, connect |-> "Ok"]
              ELSE /\ inTask' = r.self
                   /\ inReplies' = inReplies \o r.replies
                   /\ inLast' = [cmd |-> Head(inMessages), before |-> self,
                                 after |-> r.self, replies |-> r.replies, connect |-> "Ok"]
    /\ UNCHANGED <<envVars, plugin, app, inPorts, inConnected, inCalls, inEvents, outVars>>

GapNext ==
    \/ MidiNext
    \/ InRefreshClose
    \/ InNativeInGap
    \/ InRefreshReconnect
    \/ InConnectOpen
    \/ InConnectAnnounce

SpecGap == MidiInit /\ [][GapNext]_vars

\* ---------------------------------------------------------------- C25
\* C25: while a RefreshPorts is handled in the Connected state there are
\* states, between the close and the reconnect, in which no callback is
\* registered; a native message that arrives then produces no Midi reply, and
\* no later step produces one for it: a Midi reply is only ever queued by the
\* callback, for the message it is called with.
C25_Step ==
    /\ (CallbackStep /\ IsNone(inTask.connection)) =>
          /\ inTask.pc = "reconnecting"
          /\ inReplies' = inReplies
          /\ inMidiEvents' = inMidiEvents
    /\ (~InDrainStep /\ MidiIn(inReplies') # MidiIn(inReplies)) =>
          /\ CallbackStep
          /\ IsSome(inTask.connection)
          /\ Len(MidiIn(inReplies')) = Len(MidiIn(inReplies)) + 1
          /\ MidiIn(inReplies')[Len(MidiIn(inReplies'))].stamp = Delivered.stamp

C25_RefreshLosesMessages == [][C25_Step]_vars

\* A 3-byte message arrived in the interval, the reconnect succeeded, the
\* replies of the refresh were drained, and no MidiData stands for it.
C25_Witness ==
    /\ IsSome(inNative.last)
    /\ Unwrap(inNative.last).closure = NoCallback
    /\ Len(Unwrap(inNative.last).bytes) = 3
    /\ inTask.pc = "waiting"
    /\ IsSome(inTask.connection)
    /\ inLast.cmd = RefreshPorts
    /\ inReplies = <<>>
    /\ inMidiEvents = <<>>
    /\ inPorts # <<>>

\* ---------------------------------------------------------------- C26
\* C26: after the foreground has dropped the receiver of the event channel, a
\* worker that handles a command and tries to send its replies is not
\* aborted: it is still waiting for commands afterwards.
C26_Step ==
    /\ (dropped /\ Len(inMessages') < Len(inMessages)) => inTask'.pc = "waiting"
    /\ (dropped /\ Len(outMessages') < Len(outMessages)) => outTask'.pc = "waiting"

C26_SendAfterDropIsNoOp == [][C26_Step]_vars

\* The facade was dropped with a command still queued; the worker handled the
\* command, opened a device and all, and died on sending the reply.
C26_Witness ==
    /\ dropped
    /\ \/ /\ inLast.cmd # NoMessage
          /\ inLast.before.pc = "waiting"
          /\ IsSome(inLast.before.input) \/ IsSome(inLast.before.connection)
          /\ inTask.pc = "panicked"
       \/ /\ outLast.cmd # NoMessage
          /\ outLast.before.pc = "waiting"
          /\ IsSome(outLast.before.output) \/ IsSome(outLast.before.connection)
          /\ outTask.pc = "panicked"

\* ===================================================== the WASM driver
\* Native outcomes met by one command: the enumeration and the connect call.
WasmOutcomes ==
    [fails : FailRuns, ports : PortLists, connect : ConnectOutcomes]

\* A panic on wasm32 traps: the future is never polled again and is not
\* dropped either, so its channel endpoints stay open.
Trapped(self) == IF self.pc = "panicked" THEN [self EXCEPT !.pc = "trapped"] ELSE self

\* run_wasm, before the loop: MidiInput::new(..).ok() is stored; on success
\* the first enumeration is sent, on failure a warning is logged.  Either
\* way the loop is entered.  `let _ =` ignores a send without receiver.
WasmStart ==
    /\ plugin = "wasm"
    /\ inTask.pc = "start"
    /\ \E opened \in BOOLEAN, fails \in FailRuns, ports \in PortLists :
         IF opened
         THEN /\ inTask' = [inTask EXCEPT !.pc = "waiting", !.input = Some(InDevice)]
              /\ inReplies' = IF dropped
                              THEN inReplies
                              ELSE Append(inReplies, InGetAvailablePorts(fails, ports))
         ELSE /\ inTask' = [inTask EXCEPT !.pc = "waiting"]
              /\ inReplies' = inReplies
    /\ UNCHANGED <<envVars, plugin, app, inMessages, inPorts, inConnected, inCalls,
                   inLast, inEvents, outVars>>

\* handle_message: the handler of one command
WasmHandle(self, msg, o) ==
    IF msg[1] = "ConnectToPort"
    THEN handle_connect_to_port(self, msg[2], o.connect)
    ELSE IF msg[1] = "DisconnectFromPort"
    THEN handle_disconnect_from_port(self)
    ELSE handle_refresh_ports(self, o.fails, o.ports, o.connect)

\* Variant of the frame's loop: one command is handled per animation frame,
\* the others stay queued.
Mut_WasmRunOnePerFrame(states, msgs) ==
    IF msgs = <<>> THEN states
    ELSE { LET r == WasmHandle(st.self, Head(msgs), o)
           IN  [self |-> r.self,
                replies |-> st.replies \o r.replies,
                last |-> [cmd |-> Head(msgs), before |-> st.self, after |-> Trapped(r.self),
                          replies |-> r.replies, connect |-> o.connect],
                left |-> Tail(msgs)] :
               st \in states, o \in WasmOutcomes }

\* `while let Ok(msg) = self.receiver.try_recv()`: the commands queued at
\* the start of the frame are handled one after the other; a handler that
\* panics ends the run and leaves the later commands queued.  The result
\* is the set of outcomes of the run, over every outcome of the native
\* calls made on the way.
RECURSIVE WasmRun(_, _)
WasmRun(states, msgs) ==
    IF msgs = <<>> THEN states
    ELSE WasmRun({ st \in states : st.self.pc = "panicked" } \cup
                 { LET r == WasmHandle(st.self, Head(msgs), o)
                   IN  [self |-> r.self,
                        replies |-> st.replies \o r.replies,
                        last |-> [cmd |-> Head(msgs), before |-> st.self,
                                  after |-> Trapped(r.self),
                                  replies |-> r.replies, connect |-> o.connect],
                        left |-> IF r.self.pc = "panicked" THEN Tail(msgs) ELSE <<>>] :
                       st \in { t \in states : t.self.pc # "panicked" },
                       o \in WasmOutcomes },
                 Tail(msgs))

\* run_wasm, one animation frame that finds commands queued
WasmFrame ==
    /\ plugin = "wasm"
    /\ inTask.pc = "waiting"
    /\ inMessages # <<>>
    /\ \E st \in WasmRun({[self |-> inTask, replies |-> <<>>, last |-> inLast,
                            left |-> <<>>]},
                          inMessages) :
         /\ inTask' = Trapped(st.self)
         /\ inMessages' = st.left
         /\ inReplies' = IF dropped THEN inReplies ELSE inReplies \o st.replies
         /\ inLast' = st.last
    /\ UNCHANGED <<envVars, plugin, app, inPorts, inConnected, inCalls, inEvents, outVars>>

WasmInit ==
    /\ plugin = "wasm"
    /\ app = "running"
    /\ budget = MaxCmds - 1
    /\ InInit
    /\ OutInit
    /\ EnvInit

WasmNext ==
    \/ InRefreshPortsCall
    \/ InConnectCall
    \/ InDisconnectCall
    \/ InReply
    \/ WasmStart
    \/ WasmFrame
    \/ Drop

SpecWasm == WasmInit /\ [][WasmNext]_vars

\* ---------------------------------------------------------------- C27
\* A worker past its startup that holds neither a device nor a connection:
\* the device could not be opened.
OpenFailed(task) ==
    task.pc # "start" /\ IsNone(task.input) /\ IsNone(task.connection)
OutOpenFailed(task) ==
    task.pc # "start" /\ IsNone(task.output) /\ IsNone(task.connection)

\* C27: a worker whose device could not be opened at startup sends no
\* enumeration, stays without device and connection, and takes no command
\* from the control channel afterwards.
C27_Step ==
    /\ (inTask.pc = "start" /\ OpenFailed(inTask')) => inReplies' = inReplies
    /\ OpenFailed(inTask) =>
          /\ OpenFailed(inTask')
          /\ inReplies' \in {inReplies, <<>>}
          /\ Len(inMessages') >= Len(inMessages)
    /\ (outTask.pc = "start" /\ OutOpenFailed(outTask')) => outReplies' = outReplies
    /\ OutOpenFailed(outTask) =>
          /\ OutOpenFailed(outTask')
          /\ outReplies' \in {outReplies, <<>>}
          /\ Len(outMessages') >= Len(outMessages)

C27_OpenFailureIsFatal == [][C27_Step]_vars

\* The WASM driver has, with neither device nor connection, taken a command
\* from the control channel and handled it without panicking.
C27_Witness ==
    /\ plugin = "wasm"
    /\ inLast.cmd # NoMessage
    /\ OpenFailed(inLast.before)
    /\ inLast.after.pc = "waiting"
    /\ inTask.pc = "waiting"

\* ================================================ both plugins, in step
\* An application with both plugins whose input and output worker meet the
\* same native outcomes and are given the same commands.
MirrorStart ==
    /\ plugin = "both"
    /\ inTask.pc = "start"
    /\ outTask.pc = "start"
    /\ \E opened \in BOOLEAN, fails \in FailRuns, ports \in PortLists :
         IF opened
         THEN /\ inTask' = [inTask EXCEPT !.pc = "waiting", !.input = Some(InDevice)]
              /\ inReplies' = Append(inReplies, InGetAvailablePorts(fails, ports))
              /\ outTask' = [outTask EXCEPT !.pc = "waiting", !.output = Some(OutDevice)]
              /\ outReplies' = Append(outReplies, OutGetAvailablePorts(fails, ports))
         ELSE /\ inTask' = [inTask EXCEPT !.pc = "panicked"]
              /\ inReplies' = inReplies
              /\ outTask' = [outTask EXCEPT !.pc = "panicked"]
              /\ outReplies' = outReplies
    /\ UNCHANGED <<envVars, plugin, app, inMessages, inPorts, inConnected, inCalls,
                   inLast, inEvents, outMessages, outPorts, outConnected, outWrites,
                   outCalls, outLast, outEvents>>

\* Both workers receive `msg` and run their handler of it.
MirrorHandle(msg, rin, rout, outcome) ==
    /\ plugin = "both"
    /\ inTask.pc = "waiting"
    /\ outTask.pc = "waiting"
    /\ inCalls < budget
    /\ inCalls' = inCalls + 1
    /\ outCalls' = outCalls + 1
    /\ inTask' = rin.self
    /\ inReplies' = inReplies \o rin.replies
    /\ inLast' = [cmd |-> msg, before |-> inTask, after |-> rin.self,
                  replies |-> rin.replies, connect |-> outcome]
    /\ outTask' = rout.self
    /\ outReplies' = outReplies \o rout.replies
    /\ outLast' = [cmd |-> msg, before |-> outTask, after |-> rout.self,
                   replies |-> rout.replies, connect |-> outcome, writes |-> rout.writes]
    /\ UNCHANGED <<envVars, plugin, app, inMessages, inPorts, inConnected, inEvents,
                   outMessages, outPorts, outConnected, outWrites, outEvents>>

MirrorConnectToPort ==
    \E port \in Ports, outcome \in ConnectOutcomes :
        MirrorHandle(ConnectToPort(port),
                     handle_connect_to_port(inTask, port, outcome),
                     OutArmConnectToPort(outTask, port, outcome),
                     outcome)

MirrorDisconnectFromPort ==
    MirrorHandle(DisconnectFromPort,
                 handle_disconnect_from_port(inTask),
                 OutArmDisconnectFromPort(outTask),
                 "NotCalled")

MirrorRefreshPorts ==
    \E fails \in FailRuns, ports \in PortLists,
       outcome \in (IF IsSome(inTask.connection) THEN ConnectOutcomes ELSE {"NotCalled"}) :
        MirrorHandle(RefreshPorts,
                     handle_refresh_ports(inTask, fails, ports, outcome),
                     OutArmRefreshPorts(outTask, fails, ports, outcome),
                     outcome)

MirrorInit ==
    /\ plugin = "both"
    /\ app = "running"
    /\ budget = MaxCmds
    /\ InInit
    /\ OutInit
    /\ EnvInit

MirrorNext ==
    \/ MirrorStart
    \/ MirrorConnectToPort
    \/ MirrorDisconnectFromPort
    \/ MirrorRefreshPorts

SpecMirror == MirrorInit /\ [][MirrorNext]_vars

\* ---------------------------------------------------------------- C28
\* Idle, or Connected to a port, as seen from outside a worker.
InWorkerState(task) ==
    IF task.pc # "waiting" THEN <<task.pc>>
    ELSE IF IsSome(task.connection) THEN <<"Connected", Unwrap(task.connection)[2]>>
    ELSE IF IsSome(task.input) THEN <<"Idle">>
    ELSE <<"Neither">>
OutWorkerState(task) ==
    IF task.pc # "waiting" THEN <<task.pc>>
    ELSE IF IsSome(task.connection) THEN <<"Connected", Unwrap(task.connection)[2]>>
    ELSE IF IsSome(task.output) THEN <<"Idle">>
    ELSE <<"Neither">>

\* C28: given the same commands and the same outcomes of the native connect
\* and enumerate calls, the output worker is in the same state (Idle, or
\* Connected to the same port) as the input worker and has sent the same
\* replies.
C28_OutputMirrorsInput ==
    /\ InWorkerState(inTask) = OutWorkerState(outTask)
    /\ inReplies = outReplies

\* Both workers have handled a RefreshPorts while Connected, after an
\* earlier command, and both reconnected.
C28_Witness ==
    /\ plugin = "both"
    /\ inCalls >= 2
    /\ inLast.cmd = RefreshPorts
    /\ outLast.cmd = RefreshPorts
    /\ IsSome(inLast.before.connection)
    /\ IsSome(outLast.before.connection)
    /\ inLast.connect = "Ok"
    /\ InWorkerState(inTask)[1] = "Connected"
    /\ Len(outReplies) >= 3

\* ============================================= lib.rs: the `Midi` plugin
\* Status bytes and data bytes of the MidiEvents the listener is given.
StatusBytes == 0..255
DataBytes == {0, 61, 127}

KEY_RANGE == <<"C", "C#", "D", "D#", "E", "F", "F#", "G", "G#", "A", "A#", "B">>

\* translate (lib.rs): the type it prints, beside the raw message, and the
\* pair it returns.  The type is found by comparing message[0] with 144 and
\* with 128.
translate(message) ==
    LET msg == message[2]
        off == msg % 12
        oct == msg \div 12
        midi_type == IF message[1] = 144 THEN "NoteOn"
                     ELSE IF message[1] = 128 THEN "NoteOff"
                     ELSE "Other"
        k == KEY_RANGE[off + 1]
    IN  [midi_type |-> midi_type, message |-> message,
         returned |-> <<message[1], <<k, oct>>>>]

\* midi_listener, run when run_if_debug says yes: every pending MidiEvent is
\* translated.
midi_listener ==
    /\ plugin = "midi"
    /\ lib.is_debug
    /\ lib.events # <<>>
    /\ lib' = [lib EXCEPT !.events = <<>>,
                          !.printed = lib.printed \o
                              [i \in DOMAIN lib.events |-> translate(lib.events[i].message)]]
    /\ UNCHANGED <<plugin, app, inVars, outVars, budget, dropped, inNative, inCallback,
                   conv, enumVars>>

\* An App with the `Midi` plugin and one MidiEvent pending.
TranslateInit ==
    /\ plugin = "midi"
    /\ app = "running"
    /\ budget = MaxCmds
    /\ InInit
    /\ OutInit
    /\ dropped = FALSE
    /\ inNative = [n |-> 0, last |-> None]
    /\ inCallback = "ok"
    /\ enumEnv = NoEnum
    /\ enumK = 0
    /\ enumReturned = <<>>
    /\ conv = NoConv
    /\ \E debug \in BOOLEAN, b \in StatusBytes, d1 \in DataBytes, d2 \in DataBytes :
         lib = [is_debug |-> debug, events |-> <<MidiEvent(<<b, d1, d2>>)>>,
                printed |-> <<>>]

TranslateNext == midi_listener

SpecTranslate == TranslateInit /\ [][TranslateNext]_vars

\* ---------------------------------------------------------------- C29
\* C29: whatever the status byte b of a message, the message is classified
\* as Note On exactly when (b & 0xF0) = 0x90 and as Note Off exactly when
\* (b & 0xF0) = 0x80, whatever the channel in the low nibble.
C29_StatusDecode ==
    \A i \in DOMAIN lib.printed :
        LET b == lib.printed[i].message[1]
            high == b - (b % 16)
        IN  /\ lib.printed[i].midi_type = "NoteOn" <=> high = 144
            /\ lib.printed[i].midi_type = "NoteOff" <=> high = 128

\* translate has been given a Note On of channel 1 (status 0x91) and a Note
\* Off of channel 15 (status 0x8F), either one, and called it "Other".
C29_Witness ==
    \E i \in DOMAIN lib.printed :
        /\ lib.printed[i].message[1] \in {145, 143}
        /\ lib.printed[i].midi_type = "Other"

\* ---------------------------------------------------------------- C31
\* Nothing is in flight: the control channel is empty, the worker waits for
\* a command, and every reply has been drained.
InQuiescent == inMessages = <<>> /\ inTask.pc = "waiting" /\ inReplies = <<>>
OutQuiescent == outMessages = <<>> /\ outTask.pc = "waiting" /\ outReplies = <<>>

\* C31: whenever nothing is in flight, the foreground's connection status is
\* true exactly when the worker holds a connection.
C31_QuiescentStatus ==
    /\ InQuiescent => (inConnected <=> IsSome(inTask.connection))
    /\ OutQuiescent => (outConnected <=> IsSome(outTask.connection))

\* Nothing is in flight after a command that failed to connect while the
\* worker was Connected: the worker is Idle and the status is false.
C31_Witness ==
    \/ /\ InQuiescent
       /\ inLast.cmd # NoMessage
       /\ IsSome(inLast.before.connection)
       /\ inLast.connect \notin {"Ok", "NotCalled"}
       /\ ~inConnected
    \/ /\ OutQuiescent
       /\ outLast.cmd # NoMessage
       /\ IsSome(outLast.before.connection)
       /\ outLast.connect \notin {"Ok", "NotCalled"}
       /\ ~outConnected

\* ---------------------------------------------------------------- C32
\* The replies a step has put on an event channel.
Sent(before, after) ==
    IF Len(after) > Len(before) THEN SubSeq(after, Len(before) + 1, Len(after)) ELSE <<>>

\* Every Disconnected of `replies` follows a Connected with no Disconnected
\* between the two; `open` says whether a Connected without Disconnected
\* precedes `replies`.
RECURSIVE DisconnectsPaired(_, _)
DisconnectsPaired(replies, open) ==
    IF replies = <<>> THEN TRUE
    ELSE CASE Head(replies)[1] = "Connected" -> DisconnectsPaired(Tail(replies), TRUE)
           [] Head(replies)[1] = "Disconnected" ->
                  open /\ DisconnectsPaired(Tail(replies), FALSE)
           [] OTHER -> DisconnectsPaired(Tail(replies), open)

\* C32: in the replies a worker sends, every Disconnected is preceded by a
\* Connected with no other Disconnected between them.  A waiting worker
\* holds a connection exactly when the last of its Connected / Disconnected
\* replies is Connected, and the replies of each step are paired from there.
C32_In ==
    LET sent == Sent(inReplies, inReplies')
        open == IsSome(inTask.connection)
    IN  /\ DisconnectsPaired(sent, open)
        /\ inTask'.pc = "waiting" =>
              (IsSome(inTask'.connection) <=> DrainConnected(sent, open))
C32_Out ==
    LET sent == Sent(outReplies, outReplies')
        open == IsSome(outTask.connection)
    IN  /\ DisconnectsPaired(sent, open)
        /\ outTask'.pc = "waiting" =>
              (IsSome(outTask'.connection) <=> OutDrainConnected(sent, open))

C32_DisconnectedFollowsConnected == [][C32_In /\ C32_Out]_vars

\* A worker that already sent Disconnected for its connection has handled a
\* DisconnectFromPort while Idle.
C32_Witness ==
    \/ /\ inLast.cmd = DisconnectFromPort
       /\ IsNone(inLast.before.connection)
       /\ inLast.before.pc = "waiting"
       /\ \E i \in DOMAIN inReplies : inReplies[i] = Disconnected
    \/ /\ outLast.cmd = DisconnectFromPort
       /\ IsNone(outLast.before.connection)
       /\ outLast.before.pc = "waiting"
       /\ \E i \in DOMAIN outReplies : outReplies[i] = Disconnected

\* ---------------------------------------------------------------- C33
\* The drain's loop over `replies`, started with status `connected`: every
\* Midi reply is met with the status true.
RECURSIVE MidiWhileConnected(_, _)
MidiWhileConnected(replies, connected) ==
    IF replies = <<>> THEN TRUE
    ELSE /\ Head(replies)[1] = "Midi" => connected
         /\ MidiWhileConnected(Tail(replies), DrainConnected(<<Head(replies)>>, connected))

\* C33: every Midi reply lies between the Connected reply of its connection
\* and the Disconnected that ends it, so a drain never forwards a MidiData
\* event at a point where the connection status is false.
C33_Step == InDrainStep => MidiWhileConnected(inReplies, inConnected)

C33_MidiWithinConnection == [][C33_Step]_vars

\* A drain has forwarded a MidiData event and left the status false: the
\* worker has not sent Connected yet.
C33_Witness ==
    /\ inTask.pc = "announcing"
    /\ inMidiEvents # <<>>
    /\ ~inConnected
    /\ inReplies = <<>>

\* ---------------------------------------------------------------- C34
\* C34: a worker that waits for a command holds either the device or one
\* connection, never both and never neither.  ConnectToPort(B) handled while
\* Connected gives up the old connection whatever the outcome: on success
\* the worker is Connected to B and has sent Connected alone, on failure it
\* is Idle and has sent no Connected.
C34_In ==
    /\ inTask'.pc = "waiting" => (IsSome(inTask'.input) # IsSome(inTask'.connection))
    /\ (/\ Len(inMessages') < Len(inMessages)
        /\ Head(inMessages)[1] = "ConnectToPort"
        /\ IsSome(inTask.connection)) =>
           /\ inLast'.cmd = Head(inMessages)
           /\ IF inLast'.connect = "Ok"
              THEN /\ IsSome(inTask'.connection)
                   /\ Unwrap(inTask'.connection)[2] = Head(inMessages)[2]
                   /\ IsNone(inTask'.input)
                   /\ Sent(inReplies, inReplies') = <<Connected>>
              ELSE /\ IsNone(inTask'.connection)
                   /\ IsSome(inTask'.input)
                   /\ CountTag(Sent(inReplies, inReplies'), "Connected") = 0
C34_Out ==
    /\ outTask'.pc = "waiting" => (IsSome(outTask'.output) # IsSome(outTask'.connection))
    /\ (/\ Len(outMessages') < Len(outMessages)
        /\ Head(outMessages)[1] = "ConnectToPort"
        /\ IsSome(outTask.connection)) =>
           /\ outLast'.cmd = Head(outMessages)
           /\ IF outLast'.connect = "Ok"
              THEN /\ IsSome(outTask'.connection)
                   /\ Unwrap(outTask'.connection)[2] = Head(outMessages)[2]
                   /\ IsNone(outTask'.output)
                   /\ Sent(outReplies, outReplies') = <<Connected>>
              ELSE /\ IsNone(outTask'.connection)
                   /\ IsSome(outTask'.output)
                   /\ CountTag(Sent(outReplies, outReplies'), "Connected") = 0

C34_OneConnection == [][C34_In /\ C34_Out]_vars

\* A worker Connected to one port has handled ConnectToPort for another
\* port, the connect failed, and the worker is Idle.
C34_Witness ==
    \/ /\ inLast.cmd[1] = "ConnectToPort"
       /\ IsSome(inLast.before.connection)
       /\ Unwrap(inLast.before.connection)[2] # inLast.cmd[2]
       /\ inLast.connect = "InvalidPort"
       /\ inTask.pc = "waiting"
       /\ IsSome(inTask.input)
    \/ /\ outLast.cmd[1] = "ConnectToPort"
       /\ IsSome(outLast.before.connection)
       /\ Unwrap(outLast.before.connection)[2] # outLast.cmd[2]
       /\ outLast.connect = "InvalidPort"
       /\ outTask.pc = "waiting"
       /\ IsSome(outTask.output)

\* ================================================ fairness of the drain
\* The `reply` systems are in PreUpdate: they run in every tick of the App.
SpecTick ==
    /\ LiveInit
    /\ [][Next]_vars
    /\ WF_vars(InWorker) /\ WF_vars(OutWorker)
    /\ WF_vars(InReply) /\ WF_vars(OutReply)

\* ---------------------------------------------------------------- C35
\* connect(p) was the foreground's last call, and it is still queued.
InConnectIsLastCall ==
    /\ inCalls = budget
    /\ inMessages # <<>>
    /\ inMessages[Len(inMessages)][1] = "ConnectToPort"
\* That call has been handled and the native connect failed, or the worker
\* died before it got there.
InLastConnectFailed ==
    \/ inTask.pc = "panicked"
    \/ /\ inMessages = <<>>
       /\ inLast.cmd[1] = "ConnectToPort"
       /\ inLast.connect # "Ok"

\* C35: when connect(p) is the last call of the foreground and the native
\* connect succeeds, is_connected() is eventually true and stays true.
C35_ConnectEventuallyShown ==
    [](InConnectIsLastCall => <>(InLastConnectFailed \/ [](inConnected)))

\* The last call, a connect, has been handled with success, its replies
\* have been drained, and the status is true.
C35_Witness ==
    /\ inCalls = budget
    /\ inMessages = <<>>
    /\ inReplies = <<>>
    /\ inLast.cmd[1] = "ConnectToPort"
    /\ inLast.connect = "Ok"
    /\ IsSome(inLast.before.connection)
    /\ inConnected

\* ================================================= the two input drivers
\* poll (input.rs), `match msg`: what one native poll that receives `msg`
\* does to the task, and the replies it sends.
InPoll(self, msg, o) ==
    CASE msg[1] = "ConnectToPort" -> handle_connect_to_port(self, msg[2], o.connect)
      [] msg[1] = "DisconnectFromPort" -> handle_disconnect_from_port(self)
      [] msg[1] = "RefreshPorts" -> handle_refresh_ports(self, o.fails, o.ports, o.connect)

\* The results of as many native polls as there are commands in `msgs`,
\* one command each, over every outcome of the native calls; `results` is
\* where the polls start from.
RECURSIVE InPolls(_, _)
InPolls(results, msgs) ==
    IF msgs = <<>> THEN results
    ELSE InPolls({ LET r == InPoll(st.self, Head(msgs), o)
                   IN  Result(r.self, st.replies \o r.replies) :
                       st \in results, o \in WasmOutcomes },
                 Tail(msgs))

\* An App with the input plugin, built for a native target or for wasm32.
DriversInit ==
    /\ plugin \in {"input", "wasm"}
    /\ app = "running"
    /\ budget = MaxCmds - 1
    /\ InInit
    /\ OutInit
    /\ EnvInit

DriversNext == InNext \/ WasmStart \/ WasmFrame

SpecDrivers == DriversInit /\ [][DriversNext]_vars

\* ---------------------------------------------------------------- C36
\* The worker has opened its device.
InOpened == IsSome(inTask.input) \/ IsSome(inTask.connection)

\* C36: with the device opened, the driver of either build moves the worker
\* and extends the reply sequence as native polls, one command each, do: a
\* native poll of one command is one such poll, a WASM frame that finds n
\* commands queued is n of them in a row, and both leave nothing of what they
\* took on the control channel.  Both start with one enumeration reply.
C36_Step ==
    /\ (inTask.pc = "start" /\ InOpened') =>
          /\ inTask' = [pc |-> "waiting", input |-> Some(InDevice), connection |-> None]
          /\ Len(Sent(inReplies, inReplies')) = 1
          /\ Sent(inReplies, inReplies')[1][1] \in {"AvailablePorts", "Error"}
    /\ (plugin = "input" /\ InOpened /\ Len(inMessages') < Len(inMessages)) =>
          /\ inMessages' = Tail(inMessages)
          /\ Result(inTask', Sent(inReplies, inReplies'))
                 \in InPolls({Result(inTask, <<>>)}, <<Head(inMessages)>>)
    /\ (plugin = "wasm" /\ InOpened /\ Len(inMessages') < Len(inMessages)) =>
          /\ inMessages' = <<>>
          /\ Result(inTask', Sent(inReplies, inReplies'))
                 \in InPolls({Result(inTask, <<>>)}, inMessages)

C36_DriversAgree == [][C36_Step]_vars

\* The WASM driver found two commands queued in one frame, of which the
\* first connected and the second was handled in the Connected state.
C36_Witness ==
    /\ plugin = "wasm"
    /\ inCalls = 2
    /\ inMessages = <<>>
    /\ inLast.cmd # NoMessage
    /\ IsSome(inLast.before.connection)
    /\ IsNone(inLast.before.input)
    /\ Len(inReplies) >= 3
    /\ inReplies[2] = Connected
    /\ inPorts = <<>>
    /\ inTask.pc = "waiting"

\* =================================== lib.rs: MidiLog and its two mutexes
\* The 3-byte messages the device sends to the callback of midi_setup.
LogMessages == { <<144, 60, 127>>, <<128, 60, 0>> }
\* The timestamp of the next message: that of the message before, or later.
LogStamps ==
    IF lib.arrived = <<>> THEN {1}
    ELSE {lib.arrived[Len(lib.arrived)].stamp, lib.arrived[Len(lib.arrived)].stamp + 1}

\* State after midi_setup has opened its connection: MidiLog::default(),
\* MidiStamp { stamp: 0 }, both mutexes free, no MidiEvent sent.  `arrived`
\* lists what the callback stored, `polled` is how many of them had been
\* stored when midi_sender last ran.
LogInit ==
    /\ plugin = "midi"
    /\ app = "running"
    /\ budget = MaxCmds
    /\ InInit
    /\ OutInit
    /\ dropped = FALSE
    /\ inNative = [n |-> 0, last |-> None]
    /\ inCallback = "ok"
    /\ enumEnv = NoEnum
    /\ enumK = 0
    /\ enumReturned = <<>>
    /\ conv = NoConv
    /\ lib = [is_debug |-> FALSE, events |-> <<>>, printed |-> <<>>,
              stamp_lock |-> "free", message_lock |-> "free",
              stamp |-> 0, message |-> <<0, 0, 0>>, rs_log |-> 0,
              callback |-> None, sender |-> "idle",
              arrived |-> <<>>, polled |-> 0]

LogUnchanged ==
    UNCHANGED <<plugin, app, inVars, outVars, budget, dropped, inNative, inCallback,
                conv, enumVars>>

\* The native thread calls the closure with a message; the closure starts
\* with `thread_msg.lock()`.
CallbackCalled ==
    /\ plugin = "midi"
    /\ IsNone(lib.callback)
    /\ Len(lib.arrived) < budget
    /\ \E stamp \in LogStamps, message \in LogMessages :
         lib' = [lib EXCEPT !.callback = Some([pc |-> "lock message", stamp |-> stamp,
                                               message |-> message])]
    /\ LogUnchanged

\* closure: `thread_msg.lock().unwrap()` returns
CallbackLockMessage ==
    /\ plugin = "midi"
    /\ IsSome(lib.callback)
    /\ Unwrap(lib.callback).pc = "lock message"
    /\ lib.message_lock = "free"
    /\ lib' = [lib EXCEPT !.message_lock = "callback",
                          !.callback = Some([Unwrap(lib.callback) EXCEPT !.pc = "lock stamp"])]
    /\ LogUnchanged

\* closure: `thread_stamp.lock().unwrap()` returns, the bytes and the stamp
\* are stored, and both guards are dropped at the end of the closure.
CallbackStore ==
    /\ plugin = "midi"
    /\ IsSome(lib.callback)
    /\ Unwrap(lib.callback).pc = "lock stamp"
    /\ lib.stamp_lock = "free"
    /\ LET call == Unwrap(lib.callback) IN
       lib' = [lib EXCEPT !.message = call.message,
                          !.stamp = call.stamp,
                          !.message_lock = "free",
                          !.callback = None,
                          !.arrived = Append(lib.arrived,
                                             [stamp |-> call.stamp,
                                              message |-> call.message])]
    /\ LogUnchanged

\* midi_sender, MidiLog::get: `self.stamp.lock().unwrap()` returns
MidiLogGetStamp ==
    /\ plugin = "midi"
    /\ lib.sender = "idle"
    /\ lib.stamp_lock = "free"
    /\ lib' = [lib EXCEPT !.stamp_lock = "sender", !.sender = "lock message"]
    /\ LogUnchanged

\* midi_sender, from the return of `self.message.lock().unwrap()` on: a
\* MidiEvent is sent when the stored stamp differs from MidiStamp's; the
\* guards are dropped at the end of the system.
midi_sender ==
    /\ plugin = "midi"
    /\ lib.sender = "lock message"
    /\ lib.message_lock = "free"
    /\ lib' = [lib EXCEPT !.events = IF lib.stamp # lib.rs_log
                                     THEN Append(lib.events, MidiEvent(lib.message))
                                     ELSE lib.events,
                          !.rs_log = lib.stamp,
                          !.stamp_lock = "free",
                          !.sender = "idle",
                          !.polled = Len(lib.arrived)]
    /\ LogUnchanged

LogNext ==
    \/ CallbackCalled
    \/ CallbackLockMessage
    \/ CallbackStore
    \/ MidiLogGetStamp
    \/ midi_sender

SpecLog == LogInit /\ [][LogNext]_vars

\* ---------------------------------------------------------------- C37
\* C37: the callback thread and midi_sender never block each other forever:
\* in no reachable state does each hold one of the two mutexes and wait for
\* the one the other holds.
C37_NoDeadlock ==
    ~ (/\ lib.message_lock = "callback"
       /\ lib.stamp_lock = "sender"
       /\ lib.sender = "lock message"
       /\ IsSome(lib.callback)
       /\ Unwrap(lib.callback).pc = "lock stamp")

\* The callback holds the message mutex and midi_sender the stamp mutex, and
\* no step is possible: neither the callback nor the system can go on, and no
\* further message can be delivered.
C37_Witness ==
    /\ lib.message_lock = "callback"
    /\ lib.stamp_lock = "sender"
    /\ ~ ENABLED LogNext

\* ---------------------------------------------------------------- C38
\* C38: every message the callback stored is forwarded by midi_sender as one
\* MidiEvent with the message's bytes, in the order of arrival: after a run
\* of midi_sender the events sent are the messages stored up to that run.
C38_EveryMessageForwarded ==
    lib.events = [i \in 1..lib.polled |-> MidiEvent(lib.arrived[i].message)]

\* Two messages were stored between two runs of midi_sender, which has run
\* since and sent one MidiEvent.
C38_Witness ==
    /\ lib.polled = 2
    /\ Len(lib.arrived) = 2
    /\ lib.sender = "idle"
    /\ Len(lib.events) = 1
    /\ lib.arrived[1].stamp # lib.arrived[2].stamp


\* ===================================================================
\* types.rs: owned variants of midly's live events
\* ===================================================================

\* Longest SysEx / Undefined payload drawn.
MaxData == 2

\* Payloads of u7 bytes, up to MaxData long.
Bytes == UNION {[1..n -> {0, 127}] : n \in 0..MaxData}

\* <[u7]>::to_vec: the bytes of a borrowed slice, copied into a Vec.
to_vec(b) == <<"Vec<u7>", b[2]>>

\* &Vec<u7> used where a &[u7] is expected: the slice over the Vec's bytes.
as_slice(b) == <<"&[u7]", b[2]>>

\* The values of an event enum. `ev` and `sc` name the two enums
\* (LiveEvent / SystemCommon, OwnedLiveEvent / OwnedSystemCommon) and `buf`
\* the payload type of SysEx and Undefined; the other fields are Copy
\* values of midly and the same in both.
EventsOf(ev, sc, buf) ==
    {<<ev, "Midi", channel, message>> :
        channel \in {0, 15},
        message \in {<<"NoteOn", 61, 127>>, <<"NoteOff", 61, 0>>, <<"ProgramChange", 5>>}}
    \cup {<<ev, "Realtime", rt>> : rt \in {<<"TimingClock">>, <<"Reset">>}}
    \cup {<<ev, "Common", c>> : c \in
            {<<sc, "MidiTimeCodeQuarterFrame", m, v>> :
                m \in {"FramesLow", "HoursHigh"}, v \in {0, 15}}
            \cup {<<sc, "SongPosition", pos>> : pos \in {0, 16383}}
            \cup {<<sc, "SongSelect", ss>> : ss \in {0, 127}}
            \cup {<<sc, "TuneRequest">>}
            \cup {<<sc, "SysEx", <<buf, b>>>> : b \in Bytes}
            \cup {<<sc, "Undefined", tag, <<buf, b>>>> : tag \in {244, 245}, b \in Bytes}}

LiveEvents == EventsOf("LiveEvent", "SystemCommon", "&[u7]")

OwnedLiveEvents == EventsOf("OwnedLiveEvent", "OwnedSystemCommon", "Vec<u7>")

\* As OwnedFromLive, but an Undefined event loses its payload.
Mut_OwnedFromLiveEmptyUndefined(value) ==
    CASE value[2] = "Midi" -> <<"OwnedLiveEvent", "Midi", value[3], value[4]>>
      [] value[2] = "Realtime" -> <<"OwnedLiveEvent", "Realtime", value[3]>>
      [] value[2] = "Common" ->
            LET sc == value[3] IN
            <<"OwnedLiveEvent", "Common",
              CASE sc[2] = "MidiTimeCodeQuarterFrame" ->
                        <<"OwnedSystemCommon", "MidiTimeCodeQuarterFrame", sc[3], sc[4]>>
                [] sc[2] = "SongPosition" -> <<"OwnedSystemCommon", "SongPosition", sc[3]>>
                [] sc[2] = "SongSelect" -> <<"OwnedSystemCommon", "SongSelect", sc[3]>>
                [] sc[2] = "TuneRequest" -> <<"OwnedSystemCommon", "TuneRequest">>
                [] sc[2] = "SysEx" -> <<"OwnedSystemCommon", "SysEx", to_vec(sc[3])>>
                [] sc[2] = "Undefined" ->
                        <<"OwnedSystemCommon", "Undefined", sc[3], <<"Vec<u7>", <<>>>>>>
            >>

\* impl From<LiveEvent> for OwnedLiveEvent
OwnedFromLive(value) ==
    CASE value[2] = "Midi" -> <<"OwnedLiveEvent", "Midi", value[3], value[4]>>
      [] value[2] = "Realtime" -> <<"OwnedLiveEvent", "Realtime", value[3]>>
      [] value[2] = "Common" ->
            LET sc == value[3] IN
            <<"OwnedLiveEvent", "Common",
              CASE sc[2] = "MidiTimeCodeQuarterFrame" ->
                        <<"OwnedSystemCommon", "MidiTimeCodeQuarterFrame", sc[3], sc[4]>>
                [] sc[2] = "SongPosition" -> <<"OwnedSystemCommon", "SongPosition", sc[3]>>
                [] sc[2] = "SongSelect" -> <<"OwnedSystemCommon", "SongSelect", sc[3]>>
                [] sc[2] = "TuneRequest" -> <<"OwnedSystemCommon", "TuneRequest">>
                [] sc[2] = "SysEx" -> <<"OwnedSystemCommon", "SysEx", to_vec(sc[3])>>
                [] sc[2] = "Undefined" ->
                        <<"OwnedSystemCommon", "Undefined", sc[3], to_vec(sc[4])>>
            >>

\* impl From<&OwnedLiveEvent> for LiveEvent
LiveFromOwned(value) ==
    CASE value[2] = "Midi" -> <<"LiveEvent", "Midi", value[3], value[4]>>
      [] value[2] = "Realtime" -> <<"LiveEvent", "Realtime", value[3]>>
      [] value[2] = "Common" ->
            LET sc == value[3] IN
            <<"LiveEvent", "Common",
              CASE sc[2] = "MidiTimeCodeQuarterFrame" ->
                        <<"SystemCommon", "MidiTimeCodeQuarterFrame", sc[3], sc[4]>>
                [] sc[2] = "SongPosition" -> <<"SystemCommon", "SongPosition", sc[3]>>
                [] sc[2] = "SongSelect" -> <<"SystemCommon", "SongSelect", sc[3]>>
                [] sc[2] = "TuneRequest" -> <<"SystemCommon", "TuneRequest">>
                [] sc[2] = "SysEx" -> <<"SystemCommon", "SysEx", as_slice(sc[3])>>
                [] sc[2] = "Undefined" ->
                        <<"SystemCommon", "Undefined", sc[3], as_slice(sc[4])>>
            >>

\* A caller holds one event, borrowed or owned, and no plugin is running.
ConvInit ==
    /\ plugin = "none"
    /\ app = "running"
    /\ budget = 0
    /\ InInit
    /\ OutInit
    /\ dropped = FALSE
    /\ inNative = [n |-> 0, last |-> None]
    /\ inCallback = "ok"
    /\ enumEnv = NoEnum
    /\ enumK = 0
    /\ enumReturned = <<>>
    /\ lib = NoLib
    /\ \E given \in LiveEvents \cup OwnedLiveEvents :
            conv = [stage |-> "given", given |-> given, made |-> None, back |-> None]

\* OwnedLiveEvent::from(live), on the event given or on the one made from it.
IntoOwned ==
    /\ plugin = "none"
    /\ \/ /\ conv.stage = "given"
          /\ conv.given[1] = "LiveEvent"
          /\ conv' = [conv EXCEPT !.stage = "made",
                                  !.made = Some(OwnedFromLive(conv.given))]
       \/ /\ conv.stage = "made"
          /\ conv.given[1] = "OwnedLiveEvent"
          /\ conv' = [conv EXCEPT !.stage = "back",
                                  !.back = Some(OwnedFromLive(Unwrap(conv.made)))]
    /\ UNCHANGED <<plugin, app, inVars, outVars, budget, dropped, inNative, inCallback,
                   lib, enumVars>>

\* LiveEvent::from(&owned), on the event given or on the one made from it.
IntoLive ==
    /\ plugin = "none"
    /\ \/ /\ conv.stage = "given"
          /\ conv.given[1] = "OwnedLiveEvent"
          /\ conv' = [conv EXCEPT !.stage = "made",
                                  !.made = Some(LiveFromOwned(conv.given))]
       \/ /\ conv.stage = "made"
          /\ conv.given[1] = "LiveEvent"
          /\ conv' = [conv EXCEPT !.stage = "back",
                                  !.back = Some(LiveFromOwned(Unwrap(conv.made)))]
    /\ UNCHANGED <<plugin, app, inVars, outVars, budget, dropped, inNative, inCallback,
                   lib, enumVars>>

ConvNext == IntoOwned \/ IntoLive

SpecConv == ConvInit /\ [][ConvNext]_vars

\* C39: converting a LiveEvent into an OwnedLiveEvent and back gives an event
\* equal to the original, for every variant (Midi, Realtime, every Common
\* variant, SysEx and Undefined with their payload); converting an owned
\* event into a borrowed one and back gives the original owned event.
C39_RoundTrip ==
    conv.stage = "back" =>
        /\ conv.back = Some(conv.given)
        /\ Unwrap(conv.made)[1] # conv.given[1]

\* Both round trips are done on events with a payload: here a borrowed
\* Undefined event with MaxData bytes went to owned and back.
C39_Witness ==
    /\ conv.stage = "back"
    /\ conv.given[1] = "LiveEvent"
    /\ conv.given[2] = "Common"
    /\ conv.given[3][2] = "Undefined"
    /\ Len(conv.given[3][4][2]) = MaxData
    /\ Unwrap(conv.made)[3][4] = <<"Vec<u7>", conv.given[3][4][2]>>

============================================================================
